---- MODULE Spec2Model ----
(***************************************************************************)
(* Simulation-and-feedback engine of the restocking RL agent:              *)
(*   - EnhancedOutcomeTracker   (rl-agent/enhanced_outcome_tracking.py)    *)
(*   - EnhancedBusinessEnv      (rl-agent/enhanced_business_env.py)        *)
(*   - RestockingEnv            (rl-agent/restocking_env.py)               *)
(*   - AICOOEnvironment         (rl-agent/ai_coo_environment.py)           *)
(*   - EnhancedRLTrainingSystem (rl-agent/enhanced_rl_training.py)         *)
(*                                                                         *)
(* Money is counted in cents, time in ticks (TicksPerDay ticks to a day),  *)
(* ROI in percent and reward terms in 1/RewardScale units, so that the     *)
(* float arithmetic of the source is exact on the inputs drawn here.       *)
(***************************************************************************)
EXTENDS Integers, Sequences, FiniteSets, TLC

\* ------------------------------------------------------------------------
\* Bounds of the model
\* ------------------------------------------------------------------------
TicksPerDay == 2
MaxRecords == 2
MaxDays == 30
MaxFile == 1
NumProducts == 2
ActiveDays == 3
MaxOverrun == 1
MaxOutcomes == 11
MaxFeedback == 2
MaxTracking == 1
MaxTrainings == 2
MaxRetrainDays == 8
MaxManagerDays == 34
MaxTimesteps == 40
MaxAgentSteps == 3
MaxStarts == 3
MaxRequests == 2
MaxFeedbackDays == 3

\* ------------------------------------------------------------------------
\* Program constants
\* ------------------------------------------------------------------------
tracking_period_days == 30
RewardScale == 12 * 1000
None == -1

VARIABLES
    now,               \* datetime.now(), in ticks
    outcome_data,      \* EnhancedOutcomeTracker.outcome_data
    enhanced_rewards,  \* EnhancedOutcomeTracker.enhanced_rewards
    last_call,         \* the most recent call made on the tracker or the trainer
    last_return,       \* and the value it returned
    approved_tasks,    \* contents of approved_tasks.json
    env_kind,          \* the environment class that was instantiated
    business_state,    \* the environment's mutable state
    days_remaining,    \* self.days_remaining
    episode_actions,   \* self.episode_actions
    steps_taken,       \* number of step() calls since reset(), None before it
    orders_placed,     \* log of the restock orders enqueued since reset()
    step_result,       \* what the last step() returned and its locals
    training_metrics,  \* EnhancedRLTrainingSystem.training_metrics (model_version, in ticks)
    feedback_requests, \* UserFeedbackSystem.feedback_requests
    feedback_responses, \* UserFeedbackSystem.feedback_responses
    system_status,     \* EnhancedRLIntegrationManager.system_status
    tick_log,          \* the calls made by the most recent _run_periodic_tasks()
    background,        \* the manager's background_thread, stop_background and its threads
    workers,           \* position and locals of the threads running tracker operations
    calc_call,         \* the calculation most recently called
    calc_input,        \* the arguments the calculations are called with
    calc_result        \* what the most recent calculation returned

tracker_vars == <<now, outcome_data, enhanced_rewards, last_call, last_return, approved_tasks>>
env_vars == <<env_kind, business_state, days_remaining, episode_actions, steps_taken,
              orders_placed, step_result>>
train_vars == <<training_metrics>>
manager_vars == <<feedback_requests, feedback_responses, system_status, tick_log,
                  background, workers>>
calc_vars == <<calc_call, calc_input, calc_result>>
vars == <<tracker_vars, env_vars, train_vars, manager_vars, calc_vars>>

Abs(x) == IF x < 0 THEN -x ELSE x
Min(a, b) == IF a < b THEN a ELSE b
Max(a, b) == IF a > b THEN a ELSE b
\* Python's int(a / b): division truncated toward zero (b > 0)
TruncDiv(a, b) == IF a >= 0 THEN a \div b ELSE -((-a) \div b)
days(t) == t * TicksPerDay

\* ========================================================================
\* EnhancedOutcomeTracker
\* ========================================================================
TaskIds == {"task-1", "task-2"}
\* approved-task payloads handed to start_tracking_approved_task
ApprovedTasks ==
    [id : TaskIds, product : {"Widget"}, reasoning : {""},
     quantity : {100}, expected_roi : {25}, predicted_profit_usd : {500}]

\* mock outcome draws: units sold after the restock (actual_sales_after) and
\* the cost variation in percent (np.random.normal draws)
SalesAfterChoices == {60, 150}
CostVariationChoices == {100}
\* satisfaction scores a user may submit
SatisfactionChoices == {5}

\* what a payload field holds when its key is absent from the JSON object
\* (dict.get then returns its default) and when it holds the JSON null
Missing == -3
Absent == "<absent>"
Null == "<null>"

\* recommendation.get(key, default)
Get(value, default) == IF value = Missing THEN default ELSE value

\* the word after 'product' in the reasoning text, if there is one
ProductNamedIn(reasoning) ==
    IF reasoning = "Restock product Gadget now" THEN "Gadget" ELSE Absent

\* an extraction that has no fallback
_extract_product_name_required(recommendation) ==
    recommendation.product

\* _extract_product_name(recommendation): the product field if the key is
\* there (whatever it holds), else the word after 'product' in the reasoning,
\* else "Default Product"
_extract_product_name(recommendation) ==
    IF recommendation.product # Absent THEN recommendation.product
    ELSE IF ProductNamedIn(recommendation.reasoning) # Absent
         THEN ProductNamedIn(recommendation.reasoning)
    ELSE "Default Product"

\* the statements of start_tracking_approved_task that raise inside its try:
\* None.replace('%', '') (AttributeError), None * 10.0 (TypeError) and
\* None.lower() (AttributeError)
StartRaises(task) ==
    \/ task.expected_roi = None
    \/ task.quantity = None
    \/ _extract_product_name(task) = Null

\* the record start_tracking_approved_task builds; timestamps is the Python
\* type of the values its datetime fields hold
OutcomeData(task) ==
    [ task_id |-> IF "id" \in DOMAIN task THEN task.id ELSE "unknown",
      product_name |-> _extract_product_name(task),
      predicted_roi |-> Get(task.expected_roi, 0),
      predicted_profit |-> Get(task.predicted_profit_usd, 0),
      restock_quantity |-> Get(task.quantity, 0),
      restock_cost |-> Get(task.quantity, 0) * 1000,
      actual_sales_after |-> 0,
      actual_cost |-> 0,
      actual_roi |-> 0,
      actual_profit |-> 0,
      sell_through_rate |-> 0,
      tracking_start |-> now,
      tracking_end |-> now + days(tracking_period_days),
      outcome_captured_at |-> None,
      user_satisfaction |-> None,
      feedback_collected_at |-> None,
      timestamps |-> "datetime",
      status |-> "tracking" ]

\* start_tracking_approved_task(approved_task): the record is appended and
\* saved and True returned, unless a statement raised, which the except
\* clause turns into False
start_tracking_approved_task(task) ==
    /\ Len(outcome_data) < MaxRecords
    /\ outcome_data' = IF StartRaises(task) THEN outcome_data
                       ELSE Append(outcome_data, OutcomeData(task))
    /\ last_call' = "start_tracking_approved_task"
    /\ last_return' = IF StartRaises(task) THEN 0 ELSE 1
    /\ UNCHANGED <<now, enhanced_rewards, approved_tasks, env_vars, train_vars, manager_vars, calc_vars>>

\* _save_outcome_data() followed by _load_outcome_data(): datetimes are
\* written as ISO strings and read back as strings, everything else survives
_load_outcome_data(data) ==
    [i \in DOMAIN data |-> [data[i] EXCEPT !.timestamps = "str"]]

\* EnhancedOutcomeTracker.__init__ in a new process over the saved files
Restart ==
    /\ outcome_data' = _load_outcome_data(outcome_data)
    /\ last_call' = "__init__" /\ last_return' = None
    /\ UNCHANGED <<now, enhanced_rewards, approved_tasks, env_vars, train_vars, manager_vars, calc_vars>>

\* what a call reports when it raised TypeError
TypeError == -2

\* datetime.now() >= outcome.tracking_end raises when tracking_end is a str
ComparisonRaises(outcome) ==
    outcome.tracking_end # None /\ outcome.timestamps = "str"

_should_capture_outcome(outcome, t) ==
    IF outcome.tracking_end = None THEN FALSE ELSE t >= outcome.tracking_end

CapturedStatusFailed == "failed"

CapturedStatus == "completed"

\* _capture_mock_outcome_data(outcome) with the random draws as parameters
_capture_mock_outcome_data(outcome, sales_after, cost_variation, t) ==
    LET actual_cost == (outcome.restock_cost * cost_variation) \div 100
        revenue_per_unit == 2000
        units_sold == Min(outcome.restock_quantity, sales_after)
        total_revenue == units_sold * revenue_per_unit
        actual_profit == total_revenue - actual_cost
    IN [outcome EXCEPT
          !.actual_sales_after = sales_after,
          !.actual_cost = actual_cost,
          !.actual_profit = actual_profit,
          !.actual_roi = IF actual_cost > 0
                         THEN (actual_profit * 100) \div actual_cost ELSE 0,
          !.sell_through_rate = IF outcome.restock_quantity > 0
                                THEN (units_sold * 100) \div outcome.restock_quantity
                                ELSE 0,
          !.status = CapturedStatus,
          !.outcome_captured_at = t]

IsDueAnyStatus(outcome, t) == _should_capture_outcome(outcome, t)

\* the test of capture_business_outcomes' loop
IsDue(outcome, t) ==
    outcome.status = "tracking" /\ _should_capture_outcome(outcome, t)

\* the first record at which the loop of capture_business_outcomes raises
\* (0 if it runs to its end): a 'tracking' record whose tracking_end is a str
FirstRaising(data) ==
    LET S == {i \in DOMAIN data :
                 data[i].status = "tracking" /\ ComparisonRaises(data[i])}
    IN IF S = {} THEN 0 ELSE CHOOSE i \in S : \A j \in S : i <= j

\* the records the loop gets to
Visited(data) ==
    IF FirstRaising(data) = 0 THEN DOMAIN data ELSE 1..(FirstRaising(data) - 1)

\* the records the loop captures
Due(data, t) == {i \in Visited(data) : IsDue(data[i], t)}

\* the records after capture_business_outcomes, draws[i] being the random
\* draws used for record i
CaptureAll(data, t, draws) ==
    [i \in DOMAIN data |->
        IF i \in Due(data, t)
        THEN _capture_mock_outcome_data(data[i], draws[i].sales, draws[i].cv, t)
        ELSE data[i]]

CapturedCount(data, t) == Cardinality(Due(data, t))

Draws == [sales : SalesAfterChoices, cv : CostVariationChoices]

\* capture_business_outcomes()
capture_business_outcomes ==
    \E draws \in [Due(outcome_data, now) -> Draws] :
        /\ outcome_data' = CaptureAll(outcome_data, now, draws)
        /\ last_call' = "capture_business_outcomes"
        /\ last_return' = IF FirstRaising(outcome_data) # 0 THEN TypeError
                          ELSE CapturedCount(outcome_data, now)
        /\ UNCHANGED <<now, enhanced_rewards, approved_tasks, env_vars, train_vars, manager_vars, calc_vars>>

\* collect_user_feedback(task_id, feedback, satisfaction)
FirstIndexOf(data, task_id) ==
    LET S == {i \in DOMAIN data : data[i].task_id = task_id}
    IN IF S = {} THEN 0 ELSE CHOOSE i \in S : \A j \in S : i <= j

collect_user_feedback_completing(task_id, satisfaction) ==
    LET i == FirstIndexOf(outcome_data, task_id)
    IN /\ IF i = 0
          THEN UNCHANGED outcome_data
          ELSE outcome_data' = [outcome_data EXCEPT
                                  ![i].user_satisfaction = satisfaction,
                                  ![i].feedback_collected_at = now,
                                  ![i].status = "completed"]
       /\ last_call' = "collect_user_feedback" /\ last_return' = (IF i = 0 THEN 0 ELSE 1)
       /\ UNCHANGED <<now, enhanced_rewards, approved_tasks, env_vars, train_vars, manager_vars, calc_vars>>

collect_user_feedback(task_id, satisfaction) ==
    LET i == FirstIndexOf(outcome_data, task_id)
    IN /\ IF i = 0
          THEN UNCHANGED outcome_data
          ELSE outcome_data' = [outcome_data EXCEPT
                                  ![i].user_satisfaction = satisfaction,
                                  ![i].feedback_collected_at = now]
       /\ last_call' = "collect_user_feedback" /\ last_return' = (IF i = 0 THEN 0 ELSE 1)
       /\ UNCHANGED <<now, enhanced_rewards, approved_tasks, env_vars, train_vars, manager_vars, calc_vars>>

\* _calculate_roi_accuracy(predicted, actual), in 1/RewardScale
_calculate_roi_accuracy(predicted, actual) ==
    IF predicted = 0 /\ actual = 0 THEN RewardScale
    ELSE LET error == Abs(predicted - actual)
             max_error == Max(Max(Abs(predicted), Abs(actual)), 10)
         IN Max(0, RewardScale - (RewardScale * error) \div max_error)

\* _calculate_confidence_score(outcome): mean of the factors
_calculate_confidence_score(outcome) ==
    LET f1 == _calculate_roi_accuracy(outcome.predicted_roi, outcome.actual_roi)
        f2 == IF outcome.sell_through_rate >= 80 THEN RewardScale
              ELSE IF outcome.sell_through_rate >= 50 THEN (RewardScale * 7) \div 10
              ELSE (RewardScale * 3) \div 10
        hasSat == outcome.user_satisfaction # None
        f3 == IF hasSat THEN ((outcome.user_satisfaction - 1) * RewardScale) \div 4 ELSE 0
        f4 == IF outcome.actual_profit > 0 THEN RewardScale
              ELSE IF outcome.actual_profit > -5000 THEN RewardScale \div 2
              ELSE 0
    IN (f1 + f2 + f3 + f4) \div (IF hasSat THEN 4 ELSE 3)

_calculate_enhanced_reward_without_bonus(outcome, t) ==
    LET base_reward == (outcome.actual_profit * RewardScale) \div 10000
        roi_accuracy == _calculate_roi_accuracy(outcome.predicted_roi, outcome.actual_roi)
        actual_roi_reward == (outcome.actual_roi * roi_accuracy) \div 100
        user_feedback_bonus ==
            IF outcome.user_satisfaction # None
            THEN ((outcome.user_satisfaction - 3) * RewardScale) \div 10
            ELSE 0
        roi_error == Abs(outcome.predicted_roi - outcome.actual_roi)
        accuracy_penalty == -Min((roi_error * RewardScale) \div 100, RewardScale \div 2)
    IN [ task_id |-> outcome.task_id,
         base_reward |-> base_reward,
         actual_roi_reward |-> actual_roi_reward,
         user_feedback_bonus |-> user_feedback_bonus,
         accuracy_penalty |-> accuracy_penalty,
         total_reward |-> base_reward + actual_roi_reward + accuracy_penalty,
         confidence_score |-> _calculate_confidence_score(outcome),
         created_at |-> t ]

\* _calculate_enhanced_reward(outcome); reward terms in 1/RewardScale
_calculate_enhanced_reward(outcome, t) ==
    LET base_reward == (outcome.actual_profit * RewardScale) \div 10000
        roi_accuracy == _calculate_roi_accuracy(outcome.predicted_roi, outcome.actual_roi)
        actual_roi_reward == (outcome.actual_roi * roi_accuracy) \div 100
        user_feedback_bonus ==
            IF outcome.user_satisfaction # None
            THEN ((outcome.user_satisfaction - 3) * RewardScale) \div 10
            ELSE 0
        roi_error == Abs(outcome.predicted_roi - outcome.actual_roi)
        accuracy_penalty == -Min((roi_error * RewardScale) \div 100, RewardScale \div 2)
    IN [ task_id |-> outcome.task_id,
         base_reward |-> base_reward,
         actual_roi_reward |-> actual_roi_reward,
         user_feedback_bonus |-> user_feedback_bonus,
         accuracy_penalty |-> accuracy_penalty,
         total_reward |-> base_reward + actual_roi_reward + user_feedback_bonus
                          + accuracy_penalty,
         confidence_score |-> _calculate_confidence_score(outcome),
         created_at |-> t ]

HasRewardNever(rewards, task_id) == FALSE

\* existing_reward of generate_enhanced_rewards' loop
HasReward(rewards, task_id) ==
    \E k \in DOMAIN rewards : rewards[k].task_id = task_id

\* the reward list after generate_enhanced_rewards has walked records i..Len
RECURSIVE GenerateFrom(_, _, _, _)
GenerateFrom(data, rewards, i, t) ==
    IF i > Len(data) THEN rewards
    ELSE IF /\ data[i].status = "completed"
            /\ data[i].outcome_captured_at # None
            /\ ~HasReward(rewards, data[i].task_id)
         THEN GenerateFrom(data, Append(rewards, _calculate_enhanced_reward(data[i], t)),
                           i + 1, t)
         ELSE GenerateFrom(data, rewards, i + 1, t)

\* generate_enhanced_rewards()
generate_enhanced_rewards ==
    /\ enhanced_rewards' = GenerateFrom(outcome_data, enhanced_rewards, 1, now)
    /\ last_call' = "generate_enhanced_rewards" /\ last_return' = Len(enhanced_rewards') - Len(enhanced_rewards)
    /\ UNCHANGED <<now, outcome_data, approved_tasks, env_vars, train_vars, manager_vars, calc_vars>>

\* task.get('id') in tracking_task_ids, the ids of the records there are
\* before the loop starts (a task without an id gives None, which is no id)
TrackedBefore(data, task_id) ==
    \E i \in DOMAIN data : data[i].task_id = task_id

\* the entries of approved_tasks.json that check_for_new_approved_tasks starts
NewTasks(file, data) ==
    SelectSeq(file, LAMBDA task :
        /\ ~("id" \in DOMAIN task /\ TrackedBefore(data, task.id))
        /\ task.status = "approved"
        /\ ~task.executed)

RECURSIVE StartAll(_, _)
StartAll(data, tasks) ==
    IF tasks = <<>> THEN data
    ELSE StartAll(IF StartRaises(Head(tasks)) THEN data
                  ELSE Append(data, OutcomeData(Head(tasks))),
                  Tail(tasks))

\* the records after check_for_new_approved_tasks()
CheckedForNew(file, data) == StartAll(data, NewTasks(file, data))

\* check_for_new_approved_tasks()
check_for_new_approved_tasks ==
    /\ Len(CheckedForNew(approved_tasks, outcome_data)) <= MaxRecords
    /\ outcome_data' = CheckedForNew(approved_tasks, outcome_data)
    /\ last_call' = "check_for_new_approved_tasks" /\ last_return' = Len(outcome_data') - Len(outcome_data)
    /\ UNCHANGED <<now, enhanced_rewards, approved_tasks, env_vars, train_vars, manager_vars, calc_vars>>

\* run_outcome_capture_cycle(): check for new tasks, capture, generate; an
\* exception raised on the way ends the cycle, which still returns
run_outcome_capture_cycle ==
    LET started == CheckedForNew(approved_tasks, outcome_data)
    IN /\ Len(started) <= MaxRecords
       /\ \E draws \in [Due(started, now) -> Draws] :
            LET captured == CaptureAll(started, now, draws)
            IN /\ outcome_data' = captured
               /\ enhanced_rewards' =
                     IF FirstRaising(started) # 0 THEN enhanced_rewards
                     ELSE GenerateFrom(captured, enhanced_rewards, 1, now)
       /\ last_call' = "run_outcome_capture_cycle" /\ last_return' = Len(enhanced_rewards') - Len(enhanced_rewards)
       /\ UNCHANGED <<now, approved_tasks, env_vars, train_vars, manager_vars, calc_vars>>

\* the approval collaborator writes a task to approved_tasks.json
FileTasks ==
    [id : TaskIds, product : {"Widget"}, reasoning : {""},
     quantity : {100}, expected_roi : {25}, predicted_profit_usd : {500},
     status : {"approved"}, executed : {FALSE}]

WriteApprovedTask ==
    \E task \in FileTasks :
        /\ Len(approved_tasks) < MaxFile
        /\ approved_tasks' = Append(approved_tasks, task)
        /\ last_call' = "none" /\ last_return' = None
        /\ UNCHANGED <<now, outcome_data, enhanced_rewards, env_vars, train_vars, manager_vars, calc_vars>>

\* the clock advances between calls
ClockSteps == {days(tracking_period_days) - 1, days(tracking_period_days)}

AdvanceClock ==
    \E d \in ClockSteps :
        /\ now + d <= days(MaxDays)
        /\ now' = now + d
        /\ last_call' = "none" /\ last_return' = None
        /\ UNCHANGED <<outcome_data, enhanced_rewards, approved_tasks, env_vars, train_vars, manager_vars, calc_vars>>

\* ========================================================================
\* EnhancedBusinessEnv (the richer simulator)
\* ========================================================================
StepScale == 1000 * 1000   \* customer_satisfaction and demand_trends in millionths

\* _create_product_catalog(): prices in cents
ProductCatalog ==
    << [name |-> "Tech Pro Wireless Mouse", cost_price |-> 2500, selling_price |-> 4999,
        storage_cost_per_unit |-> 75, base_demand |-> 45, lead_time |-> 7],
       [name |-> "Organic Garden Fertilizer", cost_price |-> 1800, selling_price |-> 3499,
        storage_cost_per_unit |-> 120, base_demand |-> 30, lead_time |-> 14],
       [name |-> "Premium Athletic Socks", cost_price |-> 800, selling_price |-> 1999,
        storage_cost_per_unit |-> 25, base_demand |-> 60, lead_time |-> 10],
       [name |-> "Protein Powder Vanilla", cost_price |-> 3200, selling_price |-> 5999,
        storage_cost_per_unit |-> 100, base_demand |-> 25, lead_time |-> 12],
       [name |-> "Ergonomic Desk Organizer", cost_price |-> 2200, selling_price |-> 4299,
        storage_cost_per_unit |-> 80, base_demand |-> 20, lead_time |-> 8] >>

\* the catalog the model runs with: the first NumProducts products
products == SubSeq(ProductCatalog, 1, NumProducts)
ProductIdx == 1..NumProducts

max_days == 90
bankruptcy_threshold == -5000000

\* draws of _create_business_state()
InitialInventoryChoices == {200}
InitialCashChoices == {2000000}
InitialSatisfactionChoices == {800000}

\* _create_business_state()
_create_business_state(inv, cash, sat) ==
    [ inventory_levels |-> [i \in ProductIdx |-> inv],
      days_since_restock |-> [i \in ProductIdx |-> 0],
      cash_flow |-> cash,
      customer_satisfaction |-> sat,
      demand_trends |-> [i \in ProductIdx |-> StepScale],
      monthly_revenue |-> 0,
      monthly_costs |-> 0,
      inventory_turnover |-> 0,
      pending_orders |-> [i \in ProductIdx |-> <<>>],
      stockout_days |-> [i \in ProductIdx |-> 0],
      total_profit |-> 0 ]

InitialBusinessStates ==
    { _create_business_state(inv, cash, sat) :
        inv \in InitialInventoryChoices, cash \in InitialCashChoices,
        sat \in InitialSatisfactionChoices }

ArrivesLate(order) == order.days_remaining < 0

\* the arrival test of _process_supplier_deliveries, on the decremented order
Arrives(order) == order.days_remaining <= 0

Aged(orders) ==
    [k \in DOMAIN orders |-> [orders[k] EXCEPT !.days_remaining = @ - 1]]

RECURSIVE SumQuantity(_)
SumQuantity(orders) ==
    IF orders = <<>> THEN 0 ELSE Head(orders).quantity + SumQuantity(Tail(orders))

\* _process_supplier_deliveries()
_process_supplier_deliveries(state) ==
    LET aged == [i \in ProductIdx |-> Aged(state.pending_orders[i])]
        delivered == [i \in ProductIdx |-> SelectSeq(aged[i], Arrives)]
        kept == [i \in ProductIdx |-> SelectSeq(aged[i], LAMBDA o : ~Arrives(o))]
    IN [state EXCEPT
          !.inventory_levels =
              [i \in ProductIdx |-> state.inventory_levels[i] + SumQuantity(delivered[i])],
          !.pending_orders = kept]

\* quantity of a restock tier
TierQuantity(action_type) ==
    IF action_type = 1 THEN 50
    ELSE IF action_type = 2 THEN 100
    ELSE IF action_type = 3 THEN 200
    ELSE 0

UncappedQuantity(cash_flow, cost_price, quantity) == quantity

\* the quantity an order is cut down to when cash is short
AffordableQuantity(cash_flow, cost_price, quantity) ==
    IF cash_flow < quantity * cost_price
    THEN TruncDiv(cash_flow, cost_price)
    ELSE quantity

\* _execute_restock_action(product, action_type): the state after it and the
\* cost it returns
_execute_restock_action(state, i, action_type) ==
    IF action_type \notin {1, 2, 3} THEN [state |-> state, cost |-> 0, quantity |-> 0]
    ELSE
    LET product == products[i]
        quantity == AffordableQuantity(state.cash_flow, product.cost_price,
                                       TierQuantity(action_type))
        cost == quantity * product.cost_price
        order == [quantity |-> quantity, days_remaining |-> product.lead_time,
                  cost |-> cost]
    IN IF quantity > 0
       THEN [state |-> [state EXCEPT
                          !.pending_orders[i] = Append(@, order),
                          !.cash_flow = @ - cost,
                          !.days_since_restock[i] = 0],
             cost |-> cost, quantity |-> quantity]
       ELSE [state |-> state, cost |-> cost, quantity |-> 0]

\* the restocking loop of step(): products i..NumProducts in turn; acc carries
\* the state, the summed restock_costs and the quantities ordered
RECURSIVE RestockFrom(_, _, _)
RestockFrom(acc, i, product_actions) ==
    IF i > NumProducts THEN acc
    ELSE IF product_actions[i] > 0
         THEN LET r == _execute_restock_action(acc.state, i, product_actions[i])
              IN RestockFrom([state |-> r.state,
                              restock_costs |-> acc.restock_costs + r.cost,
                              ordered |-> [acc.ordered EXCEPT ![i] = r.quantity]],
                             i + 1, product_actions)
         ELSE RestockFrom(acc, i + 1, product_actions)

\* _execute_business_actions(business_actions)
_execute_business_actions(state, business_actions) ==
    LET marketing_action == business_actions[1]
        marketing_cost == IF marketing_action = 1 THEN 100000 ELSE 250000
        boost == IF marketing_action = 1 THEN 11 ELSE 12
    IN IF marketing_action \in {1, 2} /\ state.cash_flow >= marketing_cost
       THEN [state EXCEPT
               !.cash_flow = @ - marketing_cost,
               !.demand_trends = [i \in ProductIdx |-> (@[i] * boost) \div 10]]
       ELSE state

UnlimitedSales(daily_demand, current_inventory) == daily_demand

\* units sold of a product in a day
UnitsSold(daily_demand, current_inventory) == Min(daily_demand, current_inventory)

StockoutWheneverShort(daily_demand, units_sold, current_inventory) ==
    daily_demand > units_sold

\* the test under 'Track stockouts': current_inventory is the stock the
\* product had before the day's sales
Stockout(daily_demand, units_sold, current_inventory) ==
    daily_demand > units_sold /\ current_inventory = 0

\* the per-product loop of _simulate_daily_operations(), products i.. in turn;
\* daily_demand[i] is the demand drawn for product i
RECURSIVE SimulateFrom(_, _, _)
SimulateFrom(acc, i, daily_demand) ==
    IF i > NumProducts THEN acc
    ELSE
    LET product == products[i]
        state == acc.state
        current_inventory == state.inventory_levels[i]
        units_sold == UnitsSold(daily_demand[i], current_inventory)
        stockout == Stockout(daily_demand[i], units_sold, current_inventory)
        state1 == [state EXCEPT
                     !.inventory_levels[i] = @ - units_sold,
                     !.stockout_days[i] = IF stockout THEN @ + 1 ELSE @,
                     !.customer_satisfaction =
                         IF stockout THEN (@ * 98) \div 100 ELSE @,
                     !.days_since_restock[i] = @ + 1]
    IN SimulateFrom(
         [state |-> state1,
          daily_revenue |-> acc.daily_revenue + units_sold * product.selling_price,
          daily_costs |-> acc.daily_costs
                            + current_inventory * product.storage_cost_per_unit,
          daily_units_sold |-> acc.daily_units_sold + units_sold,
          stockouts |-> acc.stockouts + (IF stockout THEN 1 ELSE 0),
          units_sold |-> [acc.units_sold EXCEPT ![i] = units_sold],
          current_inventory |-> [acc.current_inventory EXCEPT ![i] = current_inventory]],
         i + 1, daily_demand)

\* _simulate_daily_operations()
_simulate_daily_operations(state, daily_demand) ==
    LET r == SimulateFrom([state |-> state, daily_revenue |-> 0, daily_costs |-> 0,
                           daily_units_sold |-> 0, stockouts |-> 0,
                           units_sold |-> [i \in ProductIdx |-> 0],
                           current_inventory |-> [i \in ProductIdx |-> 0]],
                          1, daily_demand)
        sat == r.state.customer_satisfaction
    IN [r EXCEPT
          !.state.customer_satisfaction =
              IF r.stockouts = 0 THEN Min(StepScale, (sat * 1001) \div 1000) ELSE sat]

InventoryValue(state) ==
    LET RECURSIVE Sum(_)
        Sum(i) == IF i > NumProducts THEN 0
                  ELSE state.inventory_levels[i] * products[i].cost_price + Sum(i + 1)
    IN Sum(1)

\* _update_business_state(daily_results); inventory_turnover in tenths
_update_business_state(state, daily) ==
    LET daily_profit == daily.daily_revenue - daily.daily_costs
        s1 == [state EXCEPT
                 !.monthly_revenue = @ + daily.daily_revenue,
                 !.monthly_costs = @ + daily.daily_costs,
                 !.total_profit = @ + daily_profit,
                 !.cash_flow = @ + daily_profit]
        avg_inventory_value == InventoryValue(s1)
    IN IF s1.monthly_costs > 0 /\ avg_inventory_value > 0
       THEN [s1 EXCEPT !.inventory_turnover =
                          (s1.monthly_costs * 10) \div avg_inventory_value]
       ELSE s1

\* a / b rounded to the nearest integer (b > 0)
RoundDiv(a, b) == (2 * a + b) \div (2 * b)

ActionNames == <<"restock_small", "restock_medium", "restock_large">>

\* _record_action(product_actions, daily_results): the entries it appends
RECURSIVE RecordFrom(_, _, _, _, _)
RecordFrom(log, i, product_actions, state, day) ==
    IF i > NumProducts THEN log
    ELSE IF product_actions[i] > 0
         THEN LET product == products[i]
                  quantity == TierQuantity(product_actions[i])
                  restock_cost == quantity * product.cost_price
                  estimated_units_sold == Min(quantity, product.base_demand * 7)
                  predicted_profit_usd ==
                      estimated_units_sold * product.selling_price - restock_cost
                  entry == [day |-> day,
                            action |-> ActionNames[product_actions[i]],
                            product |-> product.name,
                            quantity |-> quantity,
                            expected_roi |-> RoundDiv(predicted_profit_usd * 1000,
                                                      Max(restock_cost, 100)),
                            predicted_profit_usd |-> predicted_profit_usd,
                            inventory_level |-> state.inventory_levels[i],
                            customer_satisfaction |-> state.customer_satisfaction,
                            cash_flow |-> state.cash_flow]
              IN RecordFrom(Append(log, entry), i + 1, product_actions, state, day)
         ELSE RecordFrom(log, i + 1, product_actions, state, day)

RecordedNever(product_actions) == FALSE

\* the test step makes before calling _record_action
Recorded(product_actions) ==
    \E i \in ProductIdx : product_actions[i] > 0

HorizonPassed(remaining) == remaining < 0

\* terminated, from the decremented days_remaining
HorizonReached(remaining) == remaining <= 0

\* EnhancedBusinessEnv.step(action), daily_demand being the demand drawn for
\* each product (np.random.normal is unbounded, so any demand >= 0 can occur)
EnhancedStep(action, daily_demand) ==
    LET product_actions == action.product_actions
        s1 == _process_supplier_deliveries(business_state)
        r2 == RestockFrom([state |-> s1, restock_costs |-> 0,
                           ordered |-> [i \in ProductIdx |-> 0]], 1, product_actions)
        s3 == _execute_business_actions(r2.state, action.business_actions)
        daily == _simulate_daily_operations(s3, daily_demand)
        s5 == _update_business_state(daily.state, daily)
        day == max_days - days_remaining + 1
        recorded == Recorded(product_actions)
    IN /\ business_state' = s5
       /\ episode_actions' = IF recorded
                             THEN RecordFrom(episode_actions, 1, product_actions, s5, day)
                             ELSE episode_actions
       /\ days_remaining' = days_remaining - 1
       /\ steps_taken' = steps_taken + 1
       /\ orders_placed' =
             orders_placed \o
             SelectSeq([i \in ProductIdx |->
                          [product |-> i, step |-> steps_taken + 1,
                           quantity |-> r2.ordered[i]]],
                       LAMBDA o : o.quantity > 0)
       /\ step_result' =
             [ terminated |-> HorizonReached(days_remaining - 1),
               truncated |-> s5.cash_flow < bankruptcy_threshold,
               action |-> action,
               cash_before |-> business_state.cash_flow,
               restock_costs |-> r2.restock_costs,
               cash_deducted |-> s1.cash_flow - r2.state.cash_flow,
               delivered |-> [i \in ProductIdx |->
                                s1.inventory_levels[i] - business_state.inventory_levels[i]],
               daily_demand |-> daily_demand,
               current_inventory |-> daily.current_inventory,
               units_sold |-> daily.units_sold,
               stockouts |-> daily.stockouts ]

\* ========================================================================
\* RestockingEnv (the simple simulator)
\* ========================================================================
simple_max_days == 30
max_inventory == 500
\* draws of RestockingEnv.reset()
SimpleInventoryChoices == {20, 100}

\* RestockingEnv.step(action), daily_demand being the demand drawn
RestockingStep(action, daily_demand) ==
    LET restock_quantity == action * 10
        stocked == IF restock_quantity > 0
                   THEN Min(business_state.current_inventory + restock_quantity,
                            max_inventory)
                   ELSE business_state.current_inventory
        units_sold == UnitsSold(daily_demand, stocked)
        current_inventory == stocked - units_sold
        revenue == units_sold * 2000
        restock_cost == restock_quantity * 1000
        storage_cost == current_inventory * 50
        stockout_penalty ==
            IF daily_demand > units_sold /\ current_inventory = 0 THEN 5000 ELSE 0
        daily_profit == revenue - restock_cost - storage_cost - stockout_penalty
        entry == [day |-> simple_max_days - days_remaining + 1,
                  action |-> "restock",
                  quantity |-> restock_quantity,
                  expected_roi |-> RoundDiv((revenue - restock_cost) * 1000,
                                            Max(restock_cost, 100)),
                  inventory_before |-> current_inventory + units_sold,
                  daily_demand |-> daily_demand,
                  units_sold |-> units_sold]
    IN /\ business_state' = [current_inventory |-> current_inventory,
                             total_profit |-> business_state.total_profit + daily_profit]
       /\ episode_actions' = IF restock_quantity > 0
                             THEN Append(episode_actions, entry)
                             ELSE episode_actions
       /\ days_remaining' = days_remaining - 1
       /\ steps_taken' = steps_taken + 1
       /\ UNCHANGED orders_placed
       /\ step_result' =
             [ terminated |-> HorizonReached(days_remaining - 1),
               truncated |-> FALSE,
               action |-> action,
               daily_demand |-> daily_demand,
               current_inventory |-> stocked,
               units_sold |-> units_sold ]

\* ========================================================================
\* AICOOEnvironment
\* ========================================================================
\* mock_data['products'] (cost and price in cents)
MockProducts ==
    << [id |-> "PROD-001", cost |-> 4500, price |-> 8900],
       [id |-> "PROD-002", cost |-> 12000, price |-> 24900] >>
\* draws of AICOOEnvironment.reset() and of the daily fluctuations
AICOOCashChoices == {1000000}
AICOOInventoryValueChoices == {2000000}
DailyProfitChoices == {0, 100000}
\* sell-through drawn by _execute_inventory_action, in percent
SellThroughChoices == {40}
\* actions drawn for AICOOEnvironment.step: inventory actions and monitor
AICOOActionChoices == {0, 10, 51}

\* _create_monitor_result()
_create_monitor_result ==
    [action_type |-> "monitor", cost |-> 0, revenue_impact |-> 0, quantity |-> 0]

RestockQuantities == <<0, 25, 50, 75, 100, 150, 200, 300, 400, 500, 750>>

\* _execute_inventory_action(sub_action), product and sell_through being its draws
_execute_inventory_action(sub_action, product, sell_through) ==
    LET quantity == RestockQuantities[Min(sub_action, Len(RestockQuantities) - 1) + 1]
    IN IF sub_action = 0 \/ quantity = 0 THEN _create_monitor_result
       ELSE [action_type |-> "inventory_restock",
             cost |-> quantity * product.cost,
             revenue_impact |-> (quantity * product.price * sell_through) \div 100,
             quantity |-> quantity]

\* _execute_action(action) for the inventory actions and the monitor action
_execute_action(action, product, sell_through) ==
    IF action <= 10 THEN _execute_inventory_action(action, product, sell_through)
    ELSE _create_monitor_result

\* AICOOEnvironment.step(action)
AICOOStep(action, product, sell_through, daily_profit) ==
    LET action_result == _execute_action(action, product, sell_through)
        cash_flow == business_state.cash_flow + daily_profit
                       - action_result.cost + action_result.revenue_impact
        entry == [day |-> max_days - days_remaining + 1,
                  action |-> action_result.action_type,
                  quantity |-> action_result.quantity,
                  predicted_profit_usd |-> action_result.revenue_impact - action_result.cost,
                  cost |-> action_result.cost,
                  revenue_impact |-> action_result.revenue_impact]
    IN /\ business_state' =
             [cash_flow |-> cash_flow,
              inventory_value |->
                  business_state.inventory_value
                    + (IF action_result.action_type = "inventory_restock"
                       THEN action_result.cost ELSE 0),
              total_profit |-> business_state.total_profit + daily_profit]
       /\ episode_actions' = IF action_result.action_type # "monitor"
                             THEN Append(episode_actions, entry)
                             ELSE episode_actions
       /\ days_remaining' = days_remaining - 1
       /\ steps_taken' = steps_taken + 1
       /\ UNCHANGED orders_placed
       /\ step_result' =
             [ terminated |-> HorizonReached(days_remaining - 1),
               truncated |-> cash_flow < bankruptcy_threshold,
               action |-> action ]

\* ========================================================================
\* Driving the simulators: reset() and step() with drawn actions and demands
\* ========================================================================
EnvKinds == {"EnhancedBusinessEnv", "RestockingEnv", "AICOOEnvironment"}
\* self.max_days of each simulator
MaxDaysOf(kind) == IF kind = "RestockingEnv" THEN simple_max_days ELSE max_days
NoResult == [terminated |-> FALSE, truncated |-> FALSE]

\* actions the policy picks during the first ActiveDays days of an episode;
\* afterwards it does nothing
NoAction == [product_actions |-> [i \in ProductIdx |-> 0], business_actions |-> <<0, 0, 0>>]
ActionChoices ==
    { [product_actions |-> [i \in ProductIdx |-> 3], business_actions |-> <<0, 0, 0>>],
      [product_actions |-> [i \in ProductIdx |-> IF i = 1 THEN 1 ELSE 0],
       business_actions |-> <<1, 0, 0>>],
      [product_actions |-> [i \in ProductIdx |-> 0], business_actions |-> <<1, 0, 0>>] }
\* demand drawn for every product during the first ActiveDays days; afterwards
\* demand is TailDemand
DemandChoices == {0, 150}
TailDemand == 0
SimpleActionChoices == {0, 10}

Active == steps_taken < ActiveDays

\* the business metrics AICOOEnvironment.reset() draws
AICOOInitialStates ==
    { [cash_flow |-> cash, inventory_value |-> value, total_profit |-> 0] :
        cash \in AICOOCashChoices, value \in AICOOInventoryValueChoices }

\* reset() of the three simulators
reset ==
    /\ env_kind \in EnvKinds
    /\ CASE env_kind = "EnhancedBusinessEnv" ->
              business_state' \in InitialBusinessStates
         [] env_kind = "AICOOEnvironment" ->
              business_state' \in AICOOInitialStates
         [] OTHER ->
              \E inv \in SimpleInventoryChoices :
                 business_state' = [current_inventory |-> inv, total_profit |-> 0]
    /\ days_remaining' = MaxDaysOf(env_kind)
    /\ episode_actions' = <<>>
    /\ steps_taken' = 0
    /\ orders_placed' = <<>>
    /\ step_result' = NoResult
    /\ UNCHANGED <<env_kind, tracker_vars, train_vars, manager_vars, calc_vars>>

CanStep(kind) ==
    /\ env_kind = kind
    /\ steps_taken # None
    /\ steps_taken < MaxDaysOf(kind) + MaxOverrun

enhanced_step ==
    /\ CanStep("EnhancedBusinessEnv")
    /\ \E action \in (IF Active THEN ActionChoices ELSE {NoAction}),
          d \in (IF Active THEN DemandChoices ELSE {TailDemand}) :
          EnhancedStep(action, [i \in ProductIdx |-> d])
    /\ UNCHANGED <<env_kind, tracker_vars, train_vars, manager_vars, calc_vars>>

restocking_step ==
    /\ CanStep("RestockingEnv")
    /\ \E action \in (IF Active THEN SimpleActionChoices ELSE {0}),
          d \in (IF Active THEN DemandChoices ELSE {TailDemand}) :
          RestockingStep(action, d)
    /\ UNCHANGED <<env_kind, tracker_vars, train_vars, manager_vars, calc_vars>>

aicoo_step ==
    /\ CanStep("AICOOEnvironment")
    /\ \E action \in (IF Active THEN AICOOActionChoices ELSE {51}),
          k \in DOMAIN MockProducts,
          sell_through \in SellThroughChoices,
          daily_profit \in (IF Active THEN DailyProfitChoices ELSE {0}) :
          AICOOStep(action, MockProducts[k], sell_through, daily_profit)
    /\ UNCHANGED <<env_kind, tracker_vars, train_vars, manager_vars, calc_vars>>

\* no simulator instantiated
EnvIdle ==
    /\ env_kind = "none"
    /\ business_state = <<>>
    /\ days_remaining = None
    /\ episode_actions = <<>>
    /\ steps_taken = None
    /\ orders_placed = <<>>
    /\ step_result = NoResult

\* no integration manager was constructed
ThreadsIdle ==
    /\ background = None
    /\ workers = None
    /\ feedback_responses = <<>>

ManagerIdle ==
    /\ feedback_requests = <<>>
    /\ system_status = None
    /\ tick_log = <<>>
    /\ ThreadsIdle

\* no calculation was called
CalcIdle ==
    /\ calc_call = "none"
    /\ calc_input = None
    /\ calc_result = None

\* no tracker activity
TrackerIdle ==
    /\ now = 0
    /\ outcome_data = <<>>
    /\ enhanced_rewards = <<>>
    /\ last_call = "none"
    /\ last_return = None
    /\ approved_tasks = <<>>

\* the state after constructing a simulator: EnhancedBusinessEnv.__init__ draws
\* a business state and leaves days_remaining unset (no step before reset);
\* AICOOEnvironment.__init__ starts a full horizon on zeroed metrics;
\* RestockingEnv.__init__ zeroes everything, and its callers reset before
\* they step.  steps_taken counts the steps since the countdown was started.
InitEnv ==
    /\ TrackerIdle
    /\ ManagerIdle
    /\ CalcIdle
    /\ env_kind \in EnvKinds
    /\ CASE env_kind = "EnhancedBusinessEnv" ->
              business_state \in InitialBusinessStates /\ days_remaining = None
         [] env_kind = "AICOOEnvironment" ->
              business_state = [cash_flow |-> 0, inventory_value |-> 0, total_profit |-> 0]
              /\ days_remaining = max_days
         [] OTHER ->
              business_state = [current_inventory |-> 0, total_profit |-> 0]
              /\ days_remaining = 0
    /\ episode_actions = <<>>
    /\ steps_taken = IF env_kind = "AICOOEnvironment" THEN 0 ELSE None
    /\ orders_placed = <<>>
    /\ step_result = NoResult
    /\ training_metrics = <<>>

NextEnv ==
    \/ reset
    \/ enhanced_step
    \/ restocking_step
    \/ aicoo_step

SpecEnv == InitEnv /\ [][NextEnv]_vars

\* ========================================================================
\* EnhancedRLTrainingSystem: the retraining decision
\* ========================================================================
retraining_threshold == 10

RECURSIVE SumSeq(_)
SumSeq(seq) == IF seq = <<>> THEN 0 ELSE Head(seq) + SumSeq(Tail(seq))
SumOver(seq, f(_)) == SumSeq([k \in DOMAIN seq |-> f(seq[k])])

\* EnhancedOutcomeTracker.get_training_data(): the completed outcomes and the
\* sums its summary averages (accuracy in 1/RewardScale, profit in cents)
get_training_data(data) ==
    LET completed_outcomes == SelectSeq(data, LAMBDA o : o.status = "completed")
        rated == SelectSeq(completed_outcomes, LAMBDA o : o.user_satisfaction # None)
    IN [ outcomes |-> completed_outcomes,
         total_outcomes |-> Len(completed_outcomes),
         sum_roi_accuracy |->
             SumOver(completed_outcomes,
                     LAMBDA o : _calculate_roi_accuracy(o.predicted_roi, o.actual_roi)),
         rated |-> Len(rated),
         sum_user_satisfaction |-> SumOver(rated, LAMBDA o : o.user_satisfaction),
         total_actual_profit |-> SumOver(completed_outcomes, LAMBDA o : o.actual_profit) ]

InsufficientOutcomesOffByOne(n) == n < retraining_threshold - 1

\* len(outcomes) < self.retraining_threshold
InsufficientOutcomes(n) == n < retraining_threshold

\* average_roi_accuracy < 0.6 (the average of no outcome is 0.0)
PoorAccuracy(summary) ==
    IF summary.total_outcomes = 0 THEN TRUE
    ELSE summary.sum_roi_accuracy * 10 < 6 * RewardScale * summary.total_outcomes

PoorUserSatisfactionNever(summary) == FALSE

\* average_user_satisfaction is not None and < 3.0
PoorUserSatisfaction(summary) ==
    summary.rated > 0 /\ summary.sum_user_satisfaction < 3 * summary.rated

\* total_actual_profit < -1000
SignificantLosses(summary) == summary.total_actual_profit < -100000

\* (datetime.now() - datetime.fromisoformat(model_version)).days
days_since_training(model_version, t) == (t - model_version) \div TicksPerDay

OverdueLater(days_since) == days_since > 8

\* days_since_training > 7
Overdue(days_since) == days_since > 7

\* should_retrain(): the decision and the reason it reports
should_retrain(data, metrics, t) ==
    LET summary == get_training_data(data)
    IN IF InsufficientOutcomes(Len(summary.outcomes))
       THEN [retrain |-> FALSE, reason |-> "insufficient_outcomes"]
       ELSE IF PoorAccuracy(summary)
       THEN [retrain |-> TRUE, reason |-> "poor_accuracy"]
       ELSE IF PoorUserSatisfaction(summary)
       THEN [retrain |-> TRUE, reason |-> "poor_user_satisfaction"]
       ELSE IF SignificantLosses(summary)
       THEN [retrain |-> TRUE, reason |-> "significant_losses"]
       ELSE IF metrics # <<>>
               /\ Overdue(days_since_training(metrics[Len(metrics)].model_version, t))
       THEN [retrain |-> TRUE, reason |-> "scheduled_retraining"]
       ELSE [retrain |-> FALSE, reason |-> "no_retraining_needed"]

CallShouldRetrain ==
    /\ last_call' = "should_retrain"
    /\ last_return' = should_retrain(outcome_data, training_metrics, now)
    /\ UNCHANGED <<now, outcome_data, enhanced_rewards, approved_tasks, env_vars, train_vars, manager_vars, calc_vars>>

\* train_enhanced_model(): training either completes and appends its metrics,
\* stamped with the time of completion, or raises and is reported as failed
Trained(metrics, success, t) ==
    IF success THEN Append(metrics, [episode |-> Len(metrics) + 1, model_version |-> t])
    ELSE metrics

train_enhanced_model ==
    /\ Len(training_metrics) < MaxTrainings
    /\ \E success \in BOOLEAN :
          /\ training_metrics' = Trained(training_metrics, success, now)
          /\ last_return' = [success |-> success]
    /\ last_call' = "train_enhanced_model"
    /\ UNCHANGED <<now, outcome_data, enhanced_rewards, approved_tasks, env_vars, manager_vars, calc_vars>>

\* run_periodic_retraining()
run_periodic_retraining ==
    LET decision == should_retrain(outcome_data, training_metrics, now)
    IN /\ last_call' = "run_periodic_retraining"
       /\ IF ~decision.retrain
          THEN /\ last_return' = [retraining_performed |-> FALSE,
                                  reason |-> decision.reason,
                                  details |-> decision]
               /\ UNCHANGED training_metrics
          ELSE /\ Len(training_metrics) < MaxTrainings
               /\ \E success \in BOOLEAN :
                     /\ training_metrics' = Trained(training_metrics, success, now)
                     /\ last_return' =
                           [retraining_performed |-> success,
                            reason |-> IF success THEN decision.reason
                                       ELSE "training_failed",
                            trigger_details |-> decision]
       /\ UNCHANGED <<now, outcome_data, enhanced_rewards, approved_tasks, env_vars, manager_vars, calc_vars>>

\* time passing between calls on the training system
RetrainClockSteps == {days(7), days(7) + 1, days(8)}

RetrainClock ==
    \E d \in RetrainClockSteps :
        /\ now + d <= days(tracking_period_days) + days(MaxRetrainDays)
        /\ now' = now + d
        /\ last_call' = "none" /\ last_return' = None
        /\ UNCHANGED <<outcome_data, enhanced_rewards, approved_tasks, env_vars, train_vars, manager_vars, calc_vars>>

\* the outcome records the tracker loads when the training system is
\* constructed: restocks of 100 units predicted at 25% ROI, tracked for the
\* 30 days that have just ended, which sold nothing ("loss"), sold 62 units
\* ("good", rated 1 or 5 by the user or not rated), or are restocks that have
\* only just been approved ("tracking")
LoadedTask(i) ==
    [id |-> i, product |-> "Widget", reasoning |-> "", quantity |-> 100,
     expected_roi |-> 25, predicted_profit_usd |-> 500]

LoadedRecord(i, kind) ==
    LET fresh == OutcomeData(LoadedTask(i))
        elapsed == [fresh EXCEPT !.tracking_start = now - days(tracking_period_days),
                                 !.tracking_end = now]
        captured == [_capture_mock_outcome_data(
                         elapsed, IF kind = "loss" THEN 0 ELSE 62, 100, now)
                       EXCEPT !.timestamps = "str"]
    IN CASE kind = "tracking" -> fresh
         [] kind = "rated_1" -> [captured EXCEPT !.user_satisfaction = 1,
                                                 !.feedback_collected_at = now]
         [] kind = "rated_5" -> [captured EXCEPT !.user_satisfaction = 5,
                                                 !.feedback_collected_at = now]
         [] OTHER -> captured

\* how many records of each kind are loaded
Loads ==
    { c \in [loss : 0..MaxOutcomes, good : 0..MaxOutcomes,
             rated_1 : 0..MaxFeedback, rated_5 : 0..MaxFeedback,
             tracking : 0..MaxTracking] :
        /\ c.loss + c.good + c.rated_1 + c.rated_5 + c.tracking <= MaxOutcomes
        /\ c.rated_1 + c.rated_5 <= MaxFeedback }

KindAt(c, i) ==
    IF i <= c.loss THEN "loss"
    ELSE IF i <= c.loss + c.good THEN "good"
    ELSE IF i <= c.loss + c.good + c.rated_1 THEN "rated_1"
    ELSE IF i <= c.loss + c.good + c.rated_1 + c.rated_5 THEN "rated_5"
    ELSE "tracking"

Loaded(c) ==
    [i \in 1..(c.loss + c.good + c.rated_1 + c.rated_5 + c.tracking) |->
        LoadedRecord(i, KindAt(c, i))]

InitRetrain ==
    /\ now = days(tracking_period_days)
    /\ \E c \in Loads : outcome_data = Loaded(c)
    /\ enhanced_rewards = <<>>
    /\ last_call = "none"
    /\ last_return = None
    /\ approved_tasks = <<>>
    /\ EnvIdle
    /\ training_metrics = <<>>
    /\ ManagerIdle
    /\ CalcIdle

NextRetrain ==
    \/ CallShouldRetrain
    \/ train_enhanced_model
    \/ run_periodic_retraining
    \/ RetrainClock

SpecRetrain == InitRetrain /\ [][NextRetrain]_vars

\* ========================================================================
\* UserFeedbackSystem and EnhancedRLIntegrationManager (the periodic task)
\* ========================================================================
request_expiry_hours == 48
max_requests_per_user == 3

hours(h) == (h * TicksPerDay) \div 24

\* the FeedbackRequest create_outcome_feedback_request builds; outcomes carry
\* no user_id, so every request is for the user 'unknown'
FeedbackRequest(task_id, t) ==
    [task_id |-> task_id, user_id |-> "unknown", created_at |-> t,
     expires_at |-> t + hours(request_expiry_hours), status |-> "pending"]

PendingOf(requests, user_id) ==
    {k \in DOMAIN requests :
        requests[k].user_id = user_id /\ requests[k].status = "pending"}

\* create_outcome_feedback_request(task_id, user_id, ...): the requests after it
create_outcome_feedback_request(requests, task_id, t) ==
    IF Cardinality(PendingOf(requests, "unknown")) >= max_requests_per_user
    THEN requests
    ELSE Append(requests, FeedbackRequest(task_id, t))

\* _create_feedback_requests_for_completed_outcomes(): existing_requests is
\* computed once, before the loop over the completed outcomes
RECURSIVE CreateFrom(_, _, _, _)
CreateFrom(requests, completed, existing, t) ==
    IF completed = <<>> THEN requests
    ELSE CreateFrom(
            IF Head(completed).task_id \notin existing
            THEN create_outcome_feedback_request(requests, Head(completed).task_id, t)
            ELSE requests,
            Tail(completed), existing, t)

_create_feedback_requests_for_completed_outcomes(requests, data, t) ==
    CreateFrom(requests, get_training_data(data).outcomes,
               {requests[k].task_id : k \in DOMAIN requests}, t)

\* the test of expire_old_requests' loop
Expires(request, t) == t > request.expires_at

\* expire_old_requests(): the requests after it
expire_old_requests(requests, t) ==
    [k \in DOMAIN requests |->
        IF requests[k].status = "pending" /\ Expires(requests[k], t)
        THEN [requests[k] EXCEPT !.status = "expired"]
        ELSE requests[k]]

RetrainingResultWithoutTrigger(decision, success) ==
    [retraining_performed |-> FALSE, reason |-> "training_failed",
     trigger_details |-> [retrain |-> TRUE, reason |-> "training_failed"]]

\* the result run_periodic_retraining() returns
RetrainingResult(decision, success) ==
    IF ~decision.retrain
    THEN [retraining_performed |-> FALSE, reason |-> decision.reason,
          details |-> decision]
    ELSE [retraining_performed |-> success,
          reason |-> IF success THEN decision.reason ELSE "training_failed",
          trigger_details |-> decision]

\* _update_system_status()
SystemHealth(summary) ==
    IF summary.total_outcomes > 0
       /\ summary.sum_roi_accuracy * 10 > 7 * RewardScale * summary.total_outcomes
    THEN "healthy"
    ELSE IF summary.total_outcomes > 0
            /\ summary.sum_roi_accuracy * 10 > 5 * RewardScale * summary.total_outcomes
    THEN "warning"
    ELSE "error"

_update_system_status(status, data) ==
    [status EXCEPT !.total_outcomes_tracked = get_training_data(data).total_outcomes,
                   !.system_health = SystemHealth(get_training_data(data))]

\* the calls of a tick of the periodic task, in the order it makes them
TickCalls(raised, captured, retrain) ==
    <<"check_for_new_approved_tasks", "capture_business_outcomes">>
    \o (IF raised THEN <<>>
        ELSE (IF captured > 0
              THEN <<"_create_feedback_requests_for_completed_outcomes">>
              ELSE <<>>)
             \o <<"expire_old_requests", "should_retrain">>
             \o (IF retrain THEN <<"run_periodic_retraining">> ELSE <<>>)
             \o <<"_update_system_status">>)

\* _run_periodic_tasks(): one tick of _background_processing_loop.  An
\* exception raised by a call ends the tick (it is logged); the result of
\* run_periodic_retraining, a local of _check_and_perform_retraining, is
\* kept in last_return
_run_periodic_tasks ==
    LET started == CheckedForNew(approved_tasks, outcome_data)
        raised == FirstRaising(started) # 0
    IN /\ \E draws \in [Due(started, now) -> Draws], success \in BOOLEAN :
            LET captured == CaptureAll(started, now, draws)
                count == CapturedCount(started, now)
                requested ==
                    IF count > 0
                    THEN _create_feedback_requests_for_completed_outcomes(
                             feedback_requests, captured, now)
                    ELSE feedback_requests
                decision == should_retrain(captured, training_metrics, now)
                result == RetrainingResult(decision, success)
            IN /\ outcome_data' = captured
               /\ (decision.retrain /\ ~raised => Len(training_metrics) < MaxTrainings)
               /\ (raised \/ ~decision.retrain => success)
               /\ tick_log' = TickCalls(raised, count, decision.retrain)
               /\ IF raised
                  THEN /\ last_return' = TypeError
                       /\ UNCHANGED <<feedback_requests, training_metrics, system_status>>
                  ELSE /\ feedback_requests' = expire_old_requests(requested, now)
                       /\ training_metrics' =
                             IF decision.retrain
                             THEN Trained(training_metrics, success, now)
                             ELSE training_metrics
                       /\ last_return' = IF decision.retrain THEN result ELSE None
                       /\ system_status' =
                             _update_system_status(
                                 IF decision.retrain /\ success
                                 THEN [system_status EXCEPT !.last_retraining = now]
                                 ELSE system_status,
                                 captured)
       /\ last_call' = "_run_periodic_tasks"
       /\ UNCHANGED <<now, enhanced_rewards, approved_tasks, env_vars, calc_vars>>

\* the approval collaborator writes a task to approved_tasks.json
ManagerFileTasks ==
    [id : {0}, product : {"Widget"}, reasoning : {""},
     quantity : {100}, expected_roi : {25}, predicted_profit_usd : {500},
     status : {"approved"}, executed : {FALSE}]

ManagerWriteApprovedTask ==
    \E task \in ManagerFileTasks :
        /\ Len(approved_tasks) < MaxFile
        /\ approved_tasks' = Append(approved_tasks, task)
        /\ last_call' = "none" /\ last_return' = None
        /\ UNCHANGED <<now, outcome_data, enhanced_rewards, env_vars, train_vars,
                       manager_vars, calc_vars>>

\* time.sleep(processing_interval) and the ticks in which nothing is due:
\* time passes until a pending request is past its expiry or a tracking
\* window has elapsed
ManagerClockSteps ==
    {hours(request_expiry_hours) + 1 : k \in PendingOf(feedback_requests, "unknown")}
    \cup {days(tracking_period_days)}

ManagerClock ==
    \E d \in ManagerClockSteps :
        /\ now + d <= days(tracking_period_days) + days(MaxManagerDays)
        /\ now' = now + d
        /\ last_call' = "none" /\ last_return' = None
        /\ UNCHANGED <<outcome_data, enhanced_rewards, approved_tasks, env_vars,
                       train_vars, manager_vars, calc_vars>>

\* the records outcome_data.json holds when the manager is constructed
ManagerLoads ==
    {c \in Loads : c.good = 0 /\ c.rated_1 = 0 /\ c.rated_5 = 0
                   /\ c.loss \in {0, retraining_threshold - 1, retraining_threshold}}

\* EnhancedRLIntegrationManager.__init__
InitManager ==
    /\ now = days(tracking_period_days)
    /\ \E c \in ManagerLoads : outcome_data = _load_outcome_data(Loaded(c))
    /\ enhanced_rewards = <<>>
    /\ last_call = "none"
    /\ last_return = None
    /\ approved_tasks = <<>>
    /\ EnvIdle
    /\ training_metrics = <<>>
    /\ feedback_requests = <<>>
    /\ system_status = [last_retraining |-> None, total_outcomes_tracked |-> 0,
                        system_health |-> "healthy"]
    /\ tick_log = <<>>
    /\ ThreadsIdle
    /\ CalcIdle

\* a tick of the background loop
PeriodicTick ==
    _run_periodic_tasks /\ UNCHANGED <<feedback_responses, background, workers>>

NextManager ==
    \/ PeriodicTick
    \/ ManagerWriteApprovedTask
    \/ ManagerClock

SpecManager == InitManager /\ [][NextManager]_vars

\* ========================================================================
\* EnhancedTrainingSystem (curriculum learning); dials in tenths
\* ========================================================================
StageDialsSwapped ==
    << [name |-> "Basic Operations", business_complexity |-> 3,
        market_volatility |-> 2, demand_uncertainty |-> 2,
        supplier_reliability |-> 9, cash_flow_pressure |-> 2],
       [name |-> "Supply Chain Challenges", business_complexity |-> 7,
        market_volatility |-> 6, demand_uncertainty |-> 6,
        supplier_reliability |-> 6, cash_flow_pressure |-> 6],
       [name |-> "Market Dynamics", business_complexity |-> 5,
        market_volatility |-> 5, demand_uncertainty |-> 4,
        supplier_reliability |-> 8, cash_flow_pressure |-> 4],
       [name |-> "Advanced Business Operations", business_complexity |-> 10,
        market_volatility |-> 8, demand_uncertainty |-> 8,
        supplier_reliability |-> 5, cash_flow_pressure |-> 8] >>

\* the dials of the stages create_curriculum_stages lists
StageDials ==
    << [name |-> "Basic Operations", business_complexity |-> 3,
        market_volatility |-> 2, demand_uncertainty |-> 2,
        supplier_reliability |-> 9, cash_flow_pressure |-> 2],
       [name |-> "Market Dynamics", business_complexity |-> 5,
        market_volatility |-> 5, demand_uncertainty |-> 4,
        supplier_reliability |-> 8, cash_flow_pressure |-> 4],
       [name |-> "Supply Chain Challenges", business_complexity |-> 7,
        market_volatility |-> 6, demand_uncertainty |-> 6,
        supplier_reliability |-> 6, cash_flow_pressure |-> 6],
       [name |-> "Advanced Business Operations", business_complexity |-> 10,
        market_volatility |-> 8, demand_uncertainty |-> 8,
        supplier_reliability |-> 5, cash_flow_pressure |-> 8] >>

\* CurriculumStage(timesteps = total_timesteps // 4, ...)
StageTimesteps(total_timesteps) == total_timesteps \div 4

\* the list create_curriculum_stages() returns
CurriculumStages(total_timesteps) ==
    [k \in DOMAIN StageDials |->
        [name |-> StageDials[k].name,
         timesteps |-> StageTimesteps(total_timesteps),
         business_complexity |-> StageDials[k].business_complexity,
         market_volatility |-> StageDials[k].market_volatility,
         demand_uncertainty |-> StageDials[k].demand_uncertainty,
         supplier_reliability |-> StageDials[k].supplier_reliability,
         cash_flow_pressure |-> StageDials[k].cash_flow_pressure]]

\* create_curriculum_stages(), as train_with_curriculum calls it before its
\* loop: no stage is trained yet
create_curriculum_stages ==
    /\ calc_call' = "create_curriculum_stages"
    /\ calc_result' = [stages |-> CurriculumStages(calc_input.total_timesteps),
                       trained_stages |-> 0, trained_timesteps |-> 0]
    /\ UNCHANGED <<calc_input, tracker_vars, env_vars, train_vars, manager_vars>>

\* train_curriculum_stage(stage, model): one pass of train_with_curriculum's
\* loop, model.learn(total_timesteps = stage.timesteps)
train_curriculum_stage ==
    /\ calc_call \in {"create_curriculum_stages", "train_curriculum_stage"}
    /\ calc_result.trained_stages < Len(calc_result.stages)
    /\ calc_call' = "train_curriculum_stage"
    /\ calc_result' =
          [calc_result EXCEPT
              !.trained_stages = @ + 1,
              !.trained_timesteps =
                  @ + calc_result.stages[calc_result.trained_stages + 1].timesteps]
    /\ UNCHANGED <<calc_input, tracker_vars, env_vars, train_vars, manager_vars>>

\* TrainingConfig(total_timesteps = ...)
TrainingConfigs == [total_timesteps : 0..MaxTimesteps]

InitCurriculum ==
    /\ TrackerIdle
    /\ EnvIdle
    /\ training_metrics = <<>>
    /\ ManagerIdle
    /\ calc_call = "none"
    /\ calc_input \in TrainingConfigs
    /\ calc_result = None

NextCurriculum ==
    \/ create_curriculum_stages
    \/ train_curriculum_stage

SpecCurriculum == InitCurriculum /\ [][NextCurriculum]_vars

\* ========================================================================
\* EnhancedROICalculator; money in cents, rates and probabilities in
\* millionths, projected_roi in tenths of a percent
\* ========================================================================
RateScale == 1000 * 1000

\* the ProductMetrics the calculator holds (_create_mock_product_metrics and
\* product_metrics.json), rates within the ranges ProductMetrics documents
\* (markup_factor in tenths; data_age_days is (datetime.now() - last_updated).days)
ProductMetrics ==
    [cost_per_unit : {800, 2500},
     markup_factor : {12, 18},
     avg_daily_sales : {1, 12},
     current_inventory : {0, 10, 199},
     historical_sell_through_rate : {0, 450000, 750000, RateScale},
     demand_volatility : {0, 100000, 300000},
     data_age_days : {0, 15, 45}]

selling_price(metrics) == (metrics.cost_per_unit * metrics.markup_factor) \div 10

\* reorder_point = int(avg_daily_sales * 7)
reorder_point(metrics) == metrics.avg_daily_sales * 7

RestockQuantityChoices == {0, 1, 50, 100}

\* _calculate_projected_demand multiplies the base demand by a normal draw and
\* returns max(0, .): any non-negative demand
ProjectedDemandChoices == {0, 40, 100, 400}

time_window_days == 30

ClampSellThroughMissing(rate) == rate

\* min(0.98, max(0.3, .))
ClampSellThrough(rate) == Min(980000, Max(300000, rate))

\* _calculate_sell_through_rate(product_metrics, restock_quantity, projected_demand)
_calculate_sell_through_rate(metrics, restock_quantity, projected_demand) ==
    LET base_rate == metrics.historical_sell_through_rate
        quantity == Max(restock_quantity, 1)
        adjusted_rate ==
            IF projected_demand >= quantity
            THEN Min(980000, (base_rate * 11) \div 10)
            ELSE IF projected_demand * 10 >= 7 * quantity
            THEN base_rate
            ELSE (base_rate * 8) \div 10
        boosted ==
            IF metrics.current_inventory < reorder_point(metrics)
            THEN (adjusted_rate * 105) \div 100
            ELSE adjusted_rate
    IN ClampSellThrough(boosted)

\* 1 - _normal_cdf(z_score): a tanh of the z-score, which is below one half
\* when the inventory exceeds the expected demand and above it when it falls
\* short, and reaches 0 and 1 in floating point
StockoutChoices(metrics, restock_quantity) ==
    LET total_inventory == metrics.current_inventory + restock_quantity
        expected_demand == metrics.avg_daily_sales * time_window_days
    IN IF metrics.demand_volatility > 0
       THEN IF total_inventory > expected_demand THEN {0, 5000, 250000}
            ELSE IF total_inventory = expected_demand THEN {500000}
            ELSE {750000, 990000, RateScale}
       ELSE IF expected_demand > total_inventory THEN {RateScale} ELSE {0}

\* _calculate_stockout_probability: min(0.95, max(0.01, stockout_prob))
_calculate_stockout_probability(stockout_prob) ==
    Min(950000, Max(10000, stockout_prob))

\* _calculate_confidence_score(product_metrics, projected_demand, sell_through_rate)
roi_confidence_score(metrics, projected_demand) ==
    LET data_quality ==
            Max(500000, RateScale - (metrics.data_age_days * RateScale) \div 30)
        demand_predictability == RateScale - metrics.demand_volatility
        historical_accuracy == metrics.historical_sell_through_rate
        market_stability == 800000
        inventory_adequacy ==
            IF metrics.current_inventory * 10 >= Max(projected_demand, 10)
            THEN RateScale
            ELSE (metrics.current_inventory * 10 * RateScale)
                     \div Max(projected_demand, 10)
    IN (data_quality + demand_predictability + historical_accuracy
          + market_stability + inventory_adequacy) \div 5

ProjectedRoiOfRevenue(expected_revenue, total_restock_cost) ==
    IF total_restock_cost > 0
    THEN TruncDiv(expected_revenue * 1000, total_restock_cost)
    ELSE 0

\* projected_roi = (expected_profit / total_restock_cost) * 100 if
\* total_restock_cost > 0 else 0.0
ProjectedRoi(expected_revenue, total_restock_cost) ==
    IF total_restock_cost > 0
    THEN TruncDiv((expected_revenue - total_restock_cost) * 1000, total_restock_cost)
    ELSE 0

\* the ROICalculationResult calculate_roi returns
ROICalculationResult(metrics, restock_quantity, projected_demand, stockout_prob) ==
    LET total_restock_cost == restock_quantity * metrics.cost_per_unit
        sell_through_rate ==
            _calculate_sell_through_rate(metrics, restock_quantity, projected_demand)
        projected_units_sold ==
            Min(restock_quantity, (projected_demand * sell_through_rate) \div RateScale)
        expected_revenue == projected_units_sold * selling_price(metrics)
    IN [raised |-> FALSE,
        restock_quantity |-> restock_quantity,
        total_restock_cost |-> total_restock_cost,
        projected_units_sold |-> projected_units_sold,
        expected_revenue |-> expected_revenue,
        expected_profit |-> expected_revenue - total_restock_cost,
        projected_roi |-> ProjectedRoi(expected_revenue, total_restock_cost),
        sell_through_rate |-> sell_through_rate,
        stockout_probability |-> _calculate_stockout_probability(stockout_prob),
        confidence_score |-> roi_confidence_score(metrics, projected_demand)]

\* calculate_roi(product_id, restock_quantity, time_window_days = 30)
calculate_roi ==
    /\ \E projected_demand \in ProjectedDemandChoices,
          stockout_prob \in StockoutChoices(calc_input.metrics,
                                            calc_input.restock_quantity) :
          calc_result' = ROICalculationResult(calc_input.metrics,
                                              calc_input.restock_quantity,
                                              projected_demand, stockout_prob)
    /\ calc_call' = "calculate_roi"
    /\ UNCHANGED <<calc_input, tracker_vars, env_vars, train_vars, manager_vars>>

InitROI ==
    /\ TrackerIdle
    /\ EnvIdle
    /\ training_metrics = <<>>
    /\ ManagerIdle
    /\ calc_call = "none"
    /\ calc_input \in [metrics : ProductMetrics,
                       restock_quantity : RestockQuantityChoices]
    /\ calc_result = None

NextROI == calculate_roi

SpecROI == InitROI /\ [][NextROI]_vars

\* ========================================================================
\* _calculate_enhanced_reward applied to pairs of completed records
\* ========================================================================
\* a completed OutcomeData
CompletedOutcome(profit, predicted, actual, satisfaction) ==
    [OutcomeData(LoadedTask(1)) EXCEPT
        !.status = "completed",
        !.predicted_roi = predicted,
        !.actual_roi = actual,
        !.actual_profit = profit,
        !.user_satisfaction = satisfaction]

CompletedOutcomes ==
    {CompletedOutcome(profit, predicted, actual, satisfaction) :
        profit \in {-20000, 0, 50000}, predicted \in {0, 25},
        actual \in {-10, 5, 25}, satisfaction \in {None, 1, 5}}

\* _calculate_enhanced_reward(outcome) for each record of the pair
CalculateEnhancedRewards ==
    /\ calc_call' = "_calculate_enhanced_reward"
    /\ calc_result' = [k \in DOMAIN calc_input |->
                          _calculate_enhanced_reward(calc_input[k], now)]
    /\ UNCHANGED <<calc_input, tracker_vars, env_vars, train_vars, manager_vars>>

InitReward ==
    /\ TrackerIdle
    /\ EnvIdle
    /\ training_metrics = <<>>
    /\ ManagerIdle
    /\ calc_call = "none"
    /\ calc_input \in [1..2 -> CompletedOutcomes]
    /\ calc_result = None

NextReward == CalculateEnhancedRewards

SpecReward == InitReward /\ [][NextReward]_vars

\* ========================================================================
\* The recommendation generators: RestockingAgent.generate_recommendations,
\* EnhancedRLTrainingSystem.generate_enhanced_recommendations,
\* EnhancedRLAgent.generate_enhanced_recommendations and
\* AICOOEnvironment.get_recommendations; expected_roi in tenths of a percent
\* (the value of the "%.1f%%" string), scores in millionths
\* ========================================================================
Generators ==
    {"RestockingAgent", "EnhancedRLTrainingSystem", "EnhancedRLAgent", "AICOOEnvironment"}

\* the entries a step that is not a no-op adds to the action log
CandidateActions ==
    { [action |-> "restock", quantity |-> 50, expected_roi |-> 250,
       predicted_profit_usd |-> 12500],
      [action |-> "restock", quantity |-> 200, expected_roi |-> -300,
       predicted_profit_usd |-> -60000],
      [action |-> "restock", quantity |-> 100, expected_roi |-> 900,
       predicted_profit_usd |-> 120000] }

Clamp01(x) == Min(RateScale, Max(0, x))

\* summary.get('average_roi_accuracy'), in millionths (0.0 without outcomes)
average_roi_accuracy(data) ==
    LET summary == get_training_data(data)
    IN IF summary.total_outcomes = 0 THEN 0
       ELSE ((summary.sum_roi_accuracy \div summary.total_outcomes) * 1000)
                \div (RewardScale \div 1000)

\* _calculate_action_confidence(action_info)
_calculate_action_confidence(action_info, historical_accuracy) ==
    Clamp01((6 * Clamp01(action_info.expected_roi * 1000) + 4 * historical_accuracy)
                \div 10)

\* score_recommendation(rec) of _rank_recommendations
score_recommendation(rec) ==
    LET roi_score == rec.expected_roi * 1000
        profit_score == Clamp01(rec.predicted_profit_usd * 10)
    IN (4 * roi_score + 3 * rec.confidence_score + 3 * profit_score) \div 10

\* sorted(..., reverse = True): descending and stable
RECURSIVE InsertDescending(_, _)
InsertDescending(sorted, e) ==
    IF sorted = <<>> THEN <<e>>
    ELSE IF Head(sorted).key >= e.key
         THEN <<Head(sorted)>> \o InsertDescending(Tail(sorted), e)
         ELSE <<e>> \o sorted

RECURSIVE SortFrom(_, _)
SortFrom(keyed, sorted) ==
    IF keyed = <<>> THEN sorted
    ELSE SortFrom(Tail(keyed), InsertDescending(sorted, Head(keyed)))

SortedDescending(keyed) ==
    LET sorted == SortFrom(keyed, <<>>)
    IN [k \in DOMAIN sorted |-> sorted[k].item]

_rank_recommendations(recommendations) ==
    SortedDescending([k \in DOMAIN recommendations |->
        [key |-> score_recommendation(recommendations[k]),
         item |-> recommendations[k]]])

\* sorted(all_recommendations, key = float(expected_roi), reverse = True)
ByExpectedRoi(recommendations) ==
    SortedDescending([k \in DOMAIN recommendations |->
        [key |-> recommendations[k].expected_roi, item |-> recommendations[k]]])

\* seq[a:b]
Slice(seq, a, b) == SubSeq(seq, a + 1, Min(b, Len(seq)))

_map_confidence_to_level(confidence_score) ==
    IF confidence_score >= 800000 THEN "high"
    ELSE IF confidence_score >= 600000 THEN "medium"
    ELSE "low"

NoRecommendation == <<>>

\* the dict both agents return when no action was collected
MonitorRecommendation ==
    [action |-> "monitor", quantity |-> 0, expected_roi |-> 0, confidence |-> "low"]

\* RestockingAgent.generate_recommendations(): what it returns
generate_recommendations(all_recommendations) ==
    LET best_actions == Slice(ByExpectedRoi(all_recommendations), 0, 3)
    IN IF best_actions # <<>>
       THEN [action |-> best_actions[1].action,
             quantity |-> best_actions[1].quantity,
             expected_roi |-> best_actions[1].expected_roi,
             confidence |-> IF Len(best_actions) >= 3 THEN "high" ELSE "medium",
             alternative_actions |-> Slice(best_actions, 1, 3)]
       ELSE MonitorRecommendation

\* EnhancedRLTrainingSystem.generate_enhanced_recommendations(): what it returns
generate_enhanced_recommendations(all_recommendations) ==
    LET ranked_recommendations == _rank_recommendations(all_recommendations)
    IN IF ranked_recommendations # <<>>
       THEN [action |-> ranked_recommendations[1].action,
             quantity |-> ranked_recommendations[1].quantity,
             expected_roi |-> ranked_recommendations[1].expected_roi,
             predicted_profit_usd |-> ranked_recommendations[1].predicted_profit_usd,
             confidence |->
                 _map_confidence_to_level(ranked_recommendations[1].confidence_score),
             alternative_actions |-> Slice(ranked_recommendations, 1, 3)]
       ELSE MonitorRecommendation

\* the levels _calculate_confidence derives from the episodes' profits
ConfidenceLevels == {"low", "medium", "high"}

\* EnhancedRLAgent.generate_enhanced_recommendations(): what it returns
agent_generate_enhanced_recommendations(all_recommendations, confidence) ==
    LET best_recommendations == Slice(ByExpectedRoi(all_recommendations), 0, 5)
        alternatives == Slice(best_recommendations, 1, 4)
    IN IF best_recommendations # <<>>
       THEN [action |-> best_recommendations[1].action,
             quantity |-> best_recommendations[1].quantity,
             expected_roi |-> best_recommendations[1].expected_roi,
             confidence |-> confidence,
             alternative_actions |->
                 [k \in DOMAIN alternatives |->
                    [action |-> alternatives[k].action,
                     quantity |-> alternatives[k].quantity,
                     expected_roi |-> alternatives[k].expected_roi]]]
       ELSE MonitorRecommendation

\* AICOOEnvironment.get_recommendations(): the list it returns
get_recommendations(actions) ==
    IF actions = <<>>
    THEN << [action |-> "monitor", expected_roi |-> 0, confidence |-> "high"] >>
    ELSE Slice(ByExpectedRoi(actions), 0, 3)

\* one pass of a generator's inner loop: the policy picks an action and the
\* environment steps; a step that is not a no-op adds an entry to the
\* environment's episode_actions.  RestockingAgent collects the entry of the
\* step (info['restock_quantity'] > 0), EnhancedRLTrainingSystem every entry
\* of info['episode_actions'] with its confidence score, at each step.
\* EnhancedRLAgent collects under hasattr(info, 'episode_actions'), which is
\* False of the dict that step returns, so it collects nothing.
AgentStep ==
    /\ calc_call \in {"reset", "step"}
    /\ calc_input.steps < MaxAgentSteps
    /\ \E entries \in {<<>>} \cup {<<c>> : c \in CandidateActions} :
          LET log == calc_input.episode_actions \o entries
              scored == [k \in DOMAIN log |->
                           [action |-> log[k].action,
                            quantity |-> log[k].quantity,
                            expected_roi |-> log[k].expected_roi,
                            predicted_profit_usd |-> log[k].predicted_profit_usd,
                            confidence_score |->
                                _calculate_action_confidence(
                                    log[k], average_roi_accuracy(outcome_data))]]
          IN calc_input' =
                [calc_input EXCEPT
                    !.steps = @ + 1,
                    !.noop_steps = IF entries = <<>> THEN @ + 1 ELSE @,
                    !.episode_actions = log,
                    !.all_recommendations =
                        CASE calc_input.generator = "RestockingAgent" -> @ \o entries
                          [] calc_input.generator = "EnhancedRLTrainingSystem" -> @ \o scored
                          [] calc_input.generator = "EnhancedRLAgent" -> @
                          [] OTHER -> @]
    /\ calc_call' = "step"
    /\ UNCHANGED <<calc_result, tracker_vars, env_vars, train_vars, manager_vars>>

\* the generator returns
GeneratorReturn ==
    /\ calc_call \in {"reset", "step"}
    /\ calc_call' = "return"
    /\ \E confidence \in ConfidenceLevels :
          calc_result' =
             CASE calc_input.generator = "RestockingAgent" ->
                     generate_recommendations(calc_input.all_recommendations)
               [] calc_input.generator = "EnhancedRLTrainingSystem" ->
                     generate_enhanced_recommendations(calc_input.all_recommendations)
               [] calc_input.generator = "EnhancedRLAgent" ->
                     agent_generate_enhanced_recommendations(
                         calc_input.all_recommendations, confidence)
               [] OTHER -> get_recommendations(calc_input.episode_actions)
    /\ UNCHANGED <<calc_input, tracker_vars, env_vars, train_vars, manager_vars>>

\* a generator with a model, after test_env.reset()
InitRecommend ==
    /\ TrackerIdle
    /\ EnvIdle
    /\ training_metrics = <<>>
    /\ ManagerIdle
    /\ calc_call = "reset"
    /\ \E g \in Generators :
          calc_input = [generator |-> g, steps |-> 0, noop_steps |-> 0,
                        episode_actions |-> <<>>, all_recommendations |-> <<>>]
    /\ calc_result = None

NextRecommend ==
    \/ AgentStep
    \/ GeneratorReturn

SpecRecommend == InitRecommend /\ [][NextRecommend]_vars

\* ========================================================================
\* Approval payloads as the approval collaborators may hand them over
\* (start_tracking_approved_task on payloads with absent and null fields)
\* ========================================================================
ApprovalPayloads ==
    [id : {"task-1"},
     product : {"Widget", Absent, Null},
     reasoning : {"", "Restock product Gadget now"},
     quantity : {100, Missing, None},
     expected_roi : {25, Missing, None},
     predicted_profit_usd : {500}]

InitApproval ==
    /\ now = 0
    /\ outcome_data = <<>>
    /\ enhanced_rewards = <<>>
    /\ last_call = "none"
    /\ last_return = None
    /\ approved_tasks = <<>>
    /\ EnvIdle
    /\ training_metrics = <<>>
    /\ ManagerIdle
    /\ CalcIdle

NextApproval ==
    \E task \in ApprovalPayloads : start_tracking_approved_task(task)

SpecApproval == InitApproval /\ [][NextApproval]_vars

\* ========================================================================
\* The retraining simulator: create_enhanced_environment and the reward
\* calculation _inject_real_rewards patches into it; rewards in 1/RewardScale
\* ========================================================================
\* the EnhancedReward records of the store when the simulator is created
StoredRewards ==
    { [_calculate_enhanced_reward(CompletedOutcome(profit, 25, actual, 5), 0)
         EXCEPT !.task_id = id] :
        profit \in {0, 50000}, actual \in {5, 25}, id \in {1, 2} }

RewardStores ==
    UNION { [1..n -> StoredRewards] : n \in 0..MaxRecords }

\* what the simulator's own _calculate_enhanced_reward returns for a step
BaseRewardChoices == {-6000, 0, 12000}

\* reward_lookup: the entry of the last reward stored for each task id
reward_lookup(rewards) ==
    [id \in {rewards[k].task_id : k \in DOMAIN rewards} |->
        LET last == CHOOSE k \in DOMAIN rewards :
                       /\ rewards[k].task_id = id
                       /\ \A j \in DOMAIN rewards : rewards[j].task_id = id => j <= k
        IN [total_reward |-> rewards[last].total_reward,
            confidence_score |-> rewards[last].confidence_score]]

\* the blend of the base reward with a real reward entry
Blended(base_reward, real_reward_data) ==
    LET real_reward_component ==
            (real_reward_data.total_reward * real_reward_data.confidence_score)
                \div RewardScale
    IN (7 * base_reward + 3 * real_reward_component) \div 10

\* enhanced_reward_calculation(daily_results, restock_costs), base_reward
\* being what original_calculate_reward returned
enhanced_reward_calculation(env, base_reward) ==
    IF /\ env.has_current_action_id
       /\ env._current_action_id \in DOMAIN env.reward_lookup
    THEN Blended(base_reward, env.reward_lookup[env._current_action_id])
    ELSE base_reward

\* create_enhanced_environment(use_real_rewards): EnhancedBusinessEnv() has no
\* attribute _current_action_id, and with an empty store the environment is
\* returned as it was built
create_enhanced_environment ==
    /\ calc_call = "none"
    /\ \E use_real_rewards \in BOOLEAN :
          calc_input' =
             [use_real_rewards |-> use_real_rewards,
              injected |-> use_real_rewards /\ enhanced_rewards # <<>>,
              reward_lookup |-> IF use_real_rewards THEN reward_lookup(enhanced_rewards)
                                ELSE <<>>,
              has_current_action_id |-> FALSE,
              _current_action_id |-> None]
    /\ calc_call' = "create_enhanced_environment"
    /\ calc_result' = None
    /\ UNCHANGED <<tracker_vars, env_vars, train_vars, manager_vars>>

\* the reward of one step(action) of the simulator created: nothing in step,
\* in reset or in the training loop assigns _current_action_id
training_step ==
    /\ calc_call \in {"create_enhanced_environment", "step"}
    /\ \E base_reward \in BaseRewardChoices :
          calc_result' =
             [base_reward |-> base_reward,
              reward |-> IF calc_input.injected
                         THEN enhanced_reward_calculation(calc_input, base_reward)
                         ELSE base_reward]
    /\ calc_call' = "step"
    /\ UNCHANGED <<calc_input, tracker_vars, env_vars, train_vars, manager_vars>>

InitInject ==
    /\ now = 0
    /\ outcome_data = <<>>
    /\ enhanced_rewards \in RewardStores
    /\ last_call = "none"
    /\ last_return = None
    /\ approved_tasks = <<>>
    /\ EnvIdle
    /\ training_metrics = <<>>
    /\ ManagerIdle
    /\ CalcIdle

NextInject ==
    \/ create_enhanced_environment
    \/ training_step

SpecInject == InitInject /\ [][NextInject]_vars

\* ========================================================================
\* The approved-task file as the approval collaborators may leave it, and
\* the operations that add and remove records from it
\* ========================================================================
\* entries without an 'id' key, and the same entries with one
FileEntriesWithoutId ==
    [product : {"Widget"}, reasoning : {""}, quantity : {100}, expected_roi : {25},
     predicted_profit_usd : {500}, status : {"approved", "rejected"}, executed : BOOLEAN]

FileEntries ==
    FileEntriesWithoutId
       \cup { [id |-> "task-1"] @@ entry : entry \in FileEntriesWithoutId }

\* an approval collaborator appends an entry; ids are made from the clock
\* (task_%Y%m%d_%H%M%S), so two entries may carry the same id
AppendFileEntry ==
    \E entry \in FileEntries :
        /\ Len(approved_tasks) < MaxFile + 1
        /\ approved_tasks' = Append(approved_tasks, entry)
        /\ last_call' = "none" /\ last_return' = None
        /\ UNCHANGED <<now, outcome_data, enhanced_rewards, env_vars, train_vars,
                       manager_vars, calc_vars>>

days_to_keep == 90

\* EnhancedRLIntegrationManager.cleanup_old_data(): the records whose
\* tracking started more than days_to_keep days ago are dropped and the rest
\* saved; comparing a reloaded (string) tracking_start raises, which is
\* caught before anything is changed
cleanup_old_data ==
    LET cutoff_date == now - days(days_to_keep)
        raises == \E i \in DOMAIN outcome_data : outcome_data[i].timestamps = "str"
    IN /\ outcome_data' =
             IF raises THEN outcome_data
             ELSE SelectSeq(outcome_data, LAMBDA o : o.tracking_start >= cutoff_date)
       /\ last_call' = "cleanup_old_data"
       /\ last_return' = IF raises THEN TypeError
                         ELSE Len(outcome_data) - Len(outcome_data')
       /\ UNCHANGED <<now, enhanced_rewards, approved_tasks, env_vars, train_vars,
                      manager_vars, calc_vars>>

\* more than days_to_keep days pass
QuarterPasses ==
    /\ now + days(days_to_keep) + 1 <= days(days_to_keep) + days(MaxDays)
    /\ now' = now + days(days_to_keep) + 1
    /\ last_call' = "none" /\ last_return' = None
    /\ UNCHANGED <<outcome_data, enhanced_rewards, approved_tasks, env_vars, train_vars,
                   manager_vars, calc_vars>>

NextFile ==
    \/ AppendFileEntry
    \/ check_for_new_approved_tasks
    \/ cleanup_old_data
    \/ QuarterPasses

SpecFile == InitApproval /\ [][NextFile]_vars

\* ========================================================================
\* The manager's background thread: start_background_processing,
\* stop_background_processing and _background_processing_loop.  A thread of
\* background.loops is "testing" (at the while test), "ticking" (inside
\* _run_periodic_tasks), "sleeping" (in time.sleep) or "exited".
\* ========================================================================
is_alive(k) == background.loops[k] # "exited"

StartsRegardless == TRUE

\* background_thread is None or not background_thread.is_alive()
NoThreadAlive ==
    \/ background.background_thread = None
    \/ ~is_alive(background.background_thread)

\* start_background_processing(): a thread is created and started unless the
\* one there is is alive
start_background_processing ==
    /\ background.start_calls < MaxStarts
    /\ background' =
          IF NoThreadAlive
          THEN [background EXCEPT
                  !.loops = Append(@, "testing"),
                  !.background_thread = Len(background.loops) + 1,
                  !.start_calls = @ + 1]
          ELSE [background EXCEPT !.start_calls = @ + 1]
    /\ last_call' = "start_background_processing" /\ last_return' = None
    /\ UNCHANGED <<now, outcome_data, enhanced_rewards, approved_tasks, env_vars,
                   train_vars, feedback_responses,
                   feedback_requests, system_status, tick_log, workers,
                   calc_vars>>

\* stop_background_processing(): the flag is set and the thread joined for
\* at most 10 seconds, after which it may still be asleep or inside a tick
stop_background_processing ==
    /\ background' = [background EXCEPT !.stop_background = TRUE]
    /\ last_call' = "stop_background_processing" /\ last_return' = None
    /\ UNCHANGED <<now, outcome_data, enhanced_rewards, approved_tasks, env_vars,
                   train_vars, feedback_responses,
                   feedback_requests, system_status, tick_log, workers,
                   calc_vars>>

\* while not self.stop_background
loop_test(k) ==
    /\ background.loops[k] = "testing"
    /\ background' = [background EXCEPT
                        !.loops[k] = IF background.stop_background THEN "exited"
                                     ELSE "ticking"]
    /\ UNCHANGED <<tracker_vars, env_vars, train_vars, feedback_responses,
                   feedback_requests, system_status,
                   tick_log, workers, calc_vars>>

\* self._run_periodic_tasks(), which catches what its calls raise
loop_tick(k) ==
    /\ background.loops[k] = "ticking"
    /\ _run_periodic_tasks
    /\ background' = [background EXCEPT !.loops[k] = "sleeping"]
    /\ UNCHANGED <<feedback_responses, workers>>

\* time.sleep(self.processing_interval) returns
loop_wake(k) ==
    /\ background.loops[k] = "sleeping"
    /\ background' = [background EXCEPT !.loops[k] = "testing"]
    /\ UNCHANGED <<tracker_vars, env_vars, train_vars, feedback_responses,
                   feedback_requests, system_status,
                   tick_log, workers, calc_vars>>

\* EnhancedRLIntegrationManager.__init__, which starts the thread if
\* enable_background_processing
InitLoop ==
    /\ now = 0
    /\ outcome_data = <<>>
    /\ enhanced_rewards = <<>>
    /\ last_call = "none"
    /\ last_return = None
    /\ approved_tasks = <<>>
    /\ EnvIdle
    /\ training_metrics = <<>>
    /\ feedback_requests = <<>>
    /\ system_status = [last_retraining |-> None, total_outcomes_tracked |-> 0,
                        system_health |-> "healthy"]
    /\ tick_log = <<>>
    /\ \E enable_background_processing \in BOOLEAN :
          background =
             [stop_background |-> FALSE,
              background_thread |-> IF enable_background_processing THEN 1 ELSE None,
              loops |-> IF enable_background_processing THEN <<"testing">> ELSE <<>>,
              start_calls |-> IF enable_background_processing THEN 1 ELSE 0]
    /\ workers = None
    /\ feedback_responses = <<>>
    /\ CalcIdle

LoopRuns == \E k \in DOMAIN background.loops : loop_test(k) \/ loop_tick(k) \/ loop_wake(k)

NextLoop ==
    \/ start_background_processing
    \/ stop_background_processing
    \/ \E k \in DOMAIN background.loops : loop_test(k)
    \/ \E k \in DOMAIN background.loops : loop_tick(k)
    \/ \E k \in DOMAIN background.loops : loop_wake(k)
    \/ ManagerWriteApprovedTask
    \/ ManagerClock

SpecLoop == InitLoop /\ [][NextLoop]_vars

\* a started thread is scheduled, and time.sleep returns
SpecLoopFair == SpecLoop /\ WF_vars(LoopRuns)

\* ========================================================================
\* run_manual_sync on the caller's thread while the background thread is
\* inside a tick.  Neither takes a lock; the two threads are switched
\* between the statements below.  workers[w] holds the locals of thread w:
\* where it is, the index of its capture loop, the tasks its check found
\* and its captured_count.
\* ========================================================================
SyncThreads == {"tick", "sync"}

\* the records this process started a tracking period ago
StartedRecord(i) ==
    [OutcomeData(LoadedTask(i)) EXCEPT
        !.tracking_start = now - days(tracking_period_days),
        !.tracking_end = now]

\* what follows the capture loop: the rest of the tick, or the cycle's
\* generate_enhanced_rewards
AfterCapture(w) == IF w = "tick" THEN "_create_feedback_requests" ELSE "cycle_generate"

\* what follows an exception in the capture loop: _run_periodic_tasks logs
\* it and returns; run_outcome_capture_cycle logs it and returns its stats
\* to run_manual_sync, which goes on
AfterRaise(w) == IF w = "tick" THEN "returned" ELSE "sync_generate"

\* check_for_new_approved_tasks: the file is read and tracking_task_ids and
\* new_tasks are computed
reads_new_tasks(w) ==
    /\ workers[w].pc = "check_for_new_approved_tasks"
    /\ workers' = [workers EXCEPT ![w].pc = "start_tracking_approved_task",
                                  ![w].new_tasks = NewTasks(approved_tasks, outcome_data)]
    /\ UNCHANGED <<tracker_vars, env_vars, train_vars, feedback_responses,
                   feedback_requests, system_status,
                   tick_log, background, calc_vars>>

\* check_for_new_approved_tasks: the loop over new_tasks
starts_new_tasks(w) ==
    /\ workers[w].pc = "start_tracking_approved_task"
    /\ outcome_data' = StartAll(outcome_data, workers[w].new_tasks)
    /\ workers' = [workers EXCEPT ![w].pc = "capture_business_outcomes", ![w].i = 1]
    /\ UNCHANGED <<now, enhanced_rewards, last_call, last_return, approved_tasks, env_vars,
                   train_vars, feedback_responses,
                   feedback_requests, system_status, tick_log, background,
                   calc_vars>>

\* capture_business_outcomes: the loop's test of record i
tests_record(w) ==
    LET i == workers[w].i
    IN /\ workers[w].pc = "capture_business_outcomes"
       /\ workers' =
             IF i > Len(outcome_data)
             THEN [workers EXCEPT ![w].pc = AfterCapture(w)]
             ELSE IF outcome_data[i].status = "tracking" /\ ComparisonRaises(outcome_data[i])
             THEN [workers EXCEPT ![w].pc = AfterRaise(w)]
             ELSE IF IsDue(outcome_data[i], now)
             THEN [workers EXCEPT ![w].pc = "_capture_outcome_data"]
             ELSE [workers EXCEPT ![w].i = i + 1]
       /\ tick_log' = IF w = "tick" /\ i <= Len(outcome_data)
                         /\ outcome_data[i].status = "tracking"
                         /\ ComparisonRaises(outcome_data[i])
                      THEN TickCalls(TRUE, 0, FALSE) ELSE tick_log
       /\ UNCHANGED <<tracker_vars, env_vars, train_vars, feedback_responses,
                   feedback_requests, system_status,
                      background, calc_vars>>

\* capture_business_outcomes: _capture_outcome_data(outcome) for the record
\* the test passed, and captured_count += 1
captures_record(w) ==
    LET i == workers[w].i
    IN /\ workers[w].pc = "_capture_outcome_data"
       /\ \E draw \in Draws :
             outcome_data' = [outcome_data EXCEPT
                                ![i] = _capture_mock_outcome_data(@, draw.sales, draw.cv, now)]
       /\ workers' = [workers EXCEPT ![w].pc = "capture_business_outcomes",
                                     ![w].i = i + 1,
                                     ![w].captured_count = @ + 1]
       /\ UNCHANGED <<now, enhanced_rewards, last_call, last_return, approved_tasks, env_vars,
                      train_vars, feedback_responses,
                   feedback_requests, system_status, tick_log, background,
                      calc_vars>>

\* the rest of _run_periodic_tasks
tick_finishes ==
    LET count == workers["tick"].captured_count
        requested ==
            IF count > 0
            THEN _create_feedback_requests_for_completed_outcomes(
                     feedback_requests, outcome_data, now)
            ELSE feedback_requests
        decision == should_retrain(outcome_data, training_metrics, now)
    IN /\ workers["tick"].pc = "_create_feedback_requests"
       /\ \E success \in BOOLEAN :
            /\ (~decision.retrain => success)
            /\ feedback_requests' = expire_old_requests(requested, now)
            /\ training_metrics' = IF decision.retrain
                                   THEN Trained(training_metrics, success, now)
                                   ELSE training_metrics
            /\ last_return' = IF decision.retrain THEN RetrainingResult(decision, success)
                              ELSE None
            /\ system_status' =
                  _update_system_status(
                      IF decision.retrain /\ success
                      THEN [system_status EXCEPT !.last_retraining = now]
                      ELSE system_status,
                      outcome_data)
       /\ tick_log' = TickCalls(FALSE, count, decision.retrain)
       /\ last_call' = "_run_periodic_tasks"
       /\ workers' = [workers EXCEPT !["tick"].pc = "returned"]
       /\ UNCHANGED <<now, outcome_data, enhanced_rewards, approved_tasks, env_vars,
                      feedback_responses, background, calc_vars>>

\* generate_enhanced_rewards(), called by run_outcome_capture_cycle and once
\* more by run_manual_sync
sync_generates ==
    /\ workers["sync"].pc \in {"cycle_generate", "sync_generate"}
    /\ enhanced_rewards' = GenerateFrom(outcome_data, enhanced_rewards, 1, now)
    /\ workers' = [workers EXCEPT
                     !["sync"].pc = IF @ = "cycle_generate" THEN "sync_generate"
                                    ELSE "expire_old_requests"]
    /\ UNCHANGED <<now, outcome_data, last_call, last_return, approved_tasks, env_vars,
                   train_vars, feedback_responses,
                   feedback_requests, system_status, tick_log, background,
                   calc_vars>>

\* the rest of run_manual_sync
sync_finishes ==
    /\ workers["sync"].pc = "expire_old_requests"
    /\ feedback_requests' = expire_old_requests(feedback_requests, now)
    /\ system_status' = _update_system_status(system_status, outcome_data)
    /\ last_call' = "run_manual_sync"
    /\ last_return' = [outcomes_captured |-> workers["sync"].captured_count]
    /\ workers' = [workers EXCEPT !["sync"].pc = "returned"]
    /\ UNCHANGED <<now, outcome_data, enhanced_rewards, approved_tasks, env_vars, train_vars,
                   feedback_responses, tick_log, background, calc_vars>>

\* a tick has begun and run_manual_sync is called; the records were started
\* by this process a tracking period ago
InitSync ==
    /\ now = days(tracking_period_days)
    /\ \E n \in 1..MaxRecords : outcome_data = [i \in 1..n |-> StartedRecord(i)]
    /\ enhanced_rewards = <<>>
    /\ last_call = "none"
    /\ last_return = None
    /\ approved_tasks \in {<<>>} \cup {<<task>> : task \in ManagerFileTasks}
    /\ EnvIdle
    /\ training_metrics = <<>>
    /\ feedback_requests = <<>>
    /\ system_status = [last_retraining |-> None, total_outcomes_tracked |-> 0,
                        system_health |-> "healthy"]
    /\ tick_log = <<>>
    /\ background = None
    /\ workers = [w \in SyncThreads |->
                    [pc |-> "check_for_new_approved_tasks", i |-> 0, new_tasks |-> <<>>,
                     captured_count |-> 0]]
    /\ feedback_responses = <<>>
    /\ CalcIdle

NextSync ==
    \/ \E w \in SyncThreads : reads_new_tasks(w)
    \/ \E w \in SyncThreads : starts_new_tasks(w)
    \/ \E w \in SyncThreads : tests_record(w)
    \/ \E w \in SyncThreads : captures_record(w)
    \/ tick_finishes
    \/ sync_generates
    \/ sync_finishes

SpecSync == InitSync /\ [][NextSync]_vars

\* ========================================================================
\* UserFeedbackSystem: requests are created, answered and expired
\* ========================================================================
FeedbackTaskIds == {1}
FeedbackUsers == {"unknown", "U999"}
RatingChoices == {None, 3}

\* request.id, f"feedback-{task_id}-{int(time.time())}"
RequestId(request) == <<request.task_id, request.created_at>>

\* next((r for r in self.feedback_requests if r.id == request_id), None),
\* as an index, 0 for None
FindRequest(requests, request_id) ==
    LET S == {k \in DOMAIN requests : RequestId(requests[k]) = request_id}
    IN IF S = {} THEN 0 ELSE CHOOSE k \in S : \A j \in S : k <= j

AlreadyCompletedNever(request) == FALSE

\* request.status == "completed"
AlreadyCompleted(request) == request.status = "completed"

\* the FeedbackResponse process_feedback_response builds
FeedbackResponse(request, user_id, helpful, rating) ==
    [request_id |-> RequestId(request), task_id |-> request.task_id,
     user_id |-> user_id, helpful |-> helpful,
     rating |-> IF rating = None THEN (IF helpful THEN 4 ELSE 2) ELSE rating]

\* process_feedback_response(request_id, user_id, helpful, rating)
process_feedback_response(request_id, user_id, helpful, rating) ==
    LET k == FindRequest(feedback_requests, request_id)
        request == feedback_requests[k]
    IN /\ IF k = 0 \/ request.user_id # user_id \/ AlreadyCompleted(request)
          THEN /\ last_return' = FALSE
               /\ UNCHANGED <<feedback_requests, feedback_responses>>
          ELSE IF now > request.expires_at
          THEN /\ feedback_requests' = [feedback_requests EXCEPT ![k].status = "expired"]
               /\ last_return' = FALSE
               /\ UNCHANGED feedback_responses
          ELSE /\ feedback_requests' = [feedback_requests EXCEPT ![k].status = "completed"]
               /\ feedback_responses' =
                     Append(feedback_responses,
                            FeedbackResponse(request, user_id, helpful, rating))
               /\ last_return' = TRUE
       /\ last_call' = "process_feedback_response"
       /\ UNCHANGED <<now, outcome_data, enhanced_rewards, approved_tasks, env_vars, train_vars,
                      system_status, tick_log, background, workers, calc_vars>>

\* the request ids a response can name: those there are, and one there is not
RequestIds == {RequestId(feedback_requests[k]) : k \in DOMAIN feedback_requests}
              \cup {<<0, 0>>}

ProcessResponse ==
    /\ Len(feedback_responses) < MaxRequests
    /\ \E request_id \in RequestIds, user_id \in FeedbackUsers, helpful \in BOOLEAN,
          rating \in RatingChoices :
          process_feedback_response(request_id, user_id, helpful, rating)

CreateRequest ==
    \E task_id \in FeedbackTaskIds :
        /\ Len(feedback_requests) < MaxRequests
        /\ feedback_requests' =
              create_outcome_feedback_request(feedback_requests, task_id, now)
        /\ last_call' = "create_outcome_feedback_request"
        /\ last_return' = Len(feedback_requests') - Len(feedback_requests)
        /\ UNCHANGED <<now, outcome_data, enhanced_rewards, approved_tasks, env_vars,
                       train_vars, feedback_responses, system_status, tick_log, background,
                       workers, calc_vars>>

ExpireOldRequests ==
    /\ feedback_requests' = expire_old_requests(feedback_requests, now)
    /\ last_call' = "expire_old_requests"
    /\ last_return' =
          Cardinality({k \in DOMAIN feedback_requests :
                          feedback_requests'[k].status # feedback_requests[k].status})
    /\ UNCHANGED <<now, outcome_data, enhanced_rewards, approved_tasks, env_vars, train_vars,
                   feedback_responses, system_status, tick_log, background, workers,
                   calc_vars>>

FeedbackClock ==
    /\ now + days(1) <= days(MaxFeedbackDays)
    /\ now' = now + days(1)
    /\ last_call' = "none" /\ last_return' = None
    /\ UNCHANGED <<outcome_data, enhanced_rewards, approved_tasks, env_vars, train_vars,
                   manager_vars, calc_vars>>

\* UserFeedbackSystem.__init__ with no saved requests
InitFeedback ==
    /\ now = 0
    /\ outcome_data = <<>>
    /\ enhanced_rewards = <<>>
    /\ last_call = "none"
    /\ last_return = None
    /\ approved_tasks = <<>>
    /\ EnvIdle
    /\ training_metrics = <<>>
    /\ feedback_requests = <<>>
    /\ system_status = None
    /\ tick_log = <<>>
    /\ ThreadsIdle
    /\ CalcIdle

NextFeedback ==
    \/ CreateRequest
    \/ ProcessResponse
    \/ ExpireOldRequests
    \/ FeedbackClock

SpecFeedback == InitFeedback /\ [][NextFeedback]_vars

Init ==
    /\ now = 0
    /\ outcome_data = <<>>
    /\ enhanced_rewards = <<>>
    /\ last_call = "none"
    /\ last_return = None
    /\ approved_tasks = <<>>
    /\ EnvIdle
    /\ training_metrics = <<>>
    /\ ManagerIdle
    /\ CalcIdle

Next ==
    \/ \E task \in ApprovedTasks : start_tracking_approved_task(task)
    \/ capture_business_outcomes
    \/ \E id \in TaskIds, s \in SatisfactionChoices : collect_user_feedback(id, s)
    \/ generate_enhanced_rewards
    \/ check_for_new_approved_tasks
    \/ run_outcome_capture_cycle
    \/ WriteApprovedTask
    \/ AdvanceClock
    \/ Restart

Spec == Init /\ [][Next]_vars

\* ========================================================================
\* Properties of the outcome tracker (checked under Spec)
\* ========================================================================
RewardCount(rewards, task_id) ==
    Cardinality({k \in DOMAIN rewards : rewards[k].task_id = task_id})

IsPrefix(a, b) == Len(a) <= Len(b) /\ \A k \in DOMAIN a : b[k] = a[k]

\* C1: a record's status only ever moves from 'tracking' to 'completed': under
\* every tracker operation a completed record stays completed, no record
\* disappears, and no status other than 'tracking' or 'completed' is assigned.
C1_StatusOnlyAdvances ==
    [][ /\ Len(outcome_data') >= Len(outcome_data)
        /\ \A i \in DOMAIN outcome_data :
              outcome_data[i].status = "completed"
                  => outcome_data'[i].status = "completed"
        /\ \A j \in DOMAIN outcome_data' :
              outcome_data'[j].status \in {"tracking", "completed"} ]_vars

\* a completed record that later received feedback and a reward, next to a
\* record that is still tracking
C1_Witness ==
    \E i, j \in DOMAIN outcome_data :
        /\ outcome_data[i].status = "completed"
        /\ outcome_data[i].user_satisfaction # None
        /\ HasReward(enhanced_rewards, outcome_data[i].task_id)
        /\ outcome_data[j].status = "tracking"

\* C2: a second capture_business_outcomes call directly after a first one (no
\* time elapsed, no call in between) completes no record (it returns 0, or
\* raises as the first call did), leaves every record as it was, and a reward
\* generation after it yields what a reward generation after the first call
\* would have yielded.
C2_CaptureTwiceIdempotent ==
    [][ (last_call = "capture_business_outcomes"
            /\ last_call' = "capture_business_outcomes")
        => /\ last_return' \in {0, TypeError}
           /\ last_return' = TypeError <=> last_return = TypeError
           /\ outcome_data' = outcome_data
           /\ GenerateFrom(outcome_data', enhanced_rewards', 1, now')
                = GenerateFrom(outcome_data, enhanced_rewards, 1, now) ]_vars

\* the second of two successive captures returned 0 although a record was
\* completed at this very time
C2_Witness ==
    /\ last_call = "capture_business_outcomes"
    /\ last_return = 0
    /\ \E i \in DOMAIN outcome_data :
          /\ outcome_data[i].status = "completed"
          /\ outcome_data[i].outcome_captured_at = now
          /\ ~HasReward(enhanced_rewards, outcome_data[i].task_id)

\* C3: when generate_enhanced_rewards returns (alone or as the last step of
\* a capture cycle that ran to its end) every completed record has exactly
\* one reward under its task id; no task id ever has more than one; and the
\* reward list only grows at its end, the rewards already in it staying as
\* they are.
C3_RewardOncePerCompleted ==
    /\ [](\A id \in TaskIds : RewardCount(enhanced_rewards, id) <= 1)
    /\ [](last_call = "generate_enhanced_rewards"
             \/ (last_call = "run_outcome_capture_cycle"
                   /\ FirstRaising(outcome_data) = 0)
            => \A i \in DOMAIN outcome_data :
                  outcome_data[i].status = "completed"
                      => RewardCount(enhanced_rewards, outcome_data[i].task_id) = 1)
    /\ [][IsPrefix(enhanced_rewards, enhanced_rewards')]_vars

\* feedback arrived after the reward of a completed record was generated:
\* the stored reward still carries no feedback bonus
C3_Witness ==
    \E i \in DOMAIN outcome_data, k \in DOMAIN enhanced_rewards :
        /\ outcome_data[i].status = "completed"
        /\ enhanced_rewards[k].task_id = outcome_data[i].task_id
        /\ outcome_data[i].user_satisfaction = 5
        /\ enhanced_rewards[k].user_feedback_bonus = 0
        /\ last_call = "generate_enhanced_rewards"

\* C4: every record has tracking_end = tracking_start + 30 days; no record is
\* completed before its tracking_end; and once capture_business_outcomes (or
\* the capture cycle) has been called, no record whose window has elapsed is
\* still 'tracking'.
C4_WindowRespected ==
    \A i \in DOMAIN outcome_data :
        /\ outcome_data[i].tracking_end
              = outcome_data[i].tracking_start + days(tracking_period_days)
        /\ outcome_data[i].status = "completed"
              => outcome_data[i].outcome_captured_at >= outcome_data[i].tracking_end
        /\ last_call \in {"capture_business_outcomes", "run_outcome_capture_cycle"}
              => ~(outcome_data[i].status = "tracking"
                     /\ now >= outcome_data[i].tracking_end)

\* ------------------------------------------------------------------------
\* Claims about the simulators (SpecEnv)
\* ------------------------------------------------------------------------
\* a step of the running episode has returned
Stepped(kind) == env_kind = kind /\ steps_taken # None /\ steps_taken > 0

\* the orders for product i placed in the steps whose number satisfies Due
PlacedIn(i, InStep(_)) ==
    SelectSeq(orders_placed, LAMBDA o : o.product = i /\ InStep(o.step))

Quantities(orders) == [k \in DOMAIN orders |-> orders[k].quantity]

\* C5: in the richer simulator, what delivery processing adds to a product's
\* inventory in a step is exactly the quantity ordered L steps earlier (L the
\* product's lead time), so an order is delivered once, at the L-th step
\* after the one that placed it and in no earlier step; the pending list of
\* the product holds exactly the orders placed in the last L steps, each
\* with the days it still has to wait.
C5_DeliveredAfterLeadTime ==
    Stepped("EnhancedBusinessEnv") =>
        \A i \in ProductIdx :
            LET L == products[i].lead_time
                due == PlacedIn(i, LAMBDA n : n + L = steps_taken)
                waiting == PlacedIn(i, LAMBDA n : n + L > steps_taken)
                pending == business_state.pending_orders[i]
            IN /\ step_result.delivered[i] = SumQuantity(due)
               /\ Quantities(pending) = Quantities(waiting)
               /\ \A k \in DOMAIN pending :
                     pending[k].days_remaining = waiting[k].step + L - steps_taken

\* a tier-3 order of 200 units of the product with lead time 7 has just been
\* delivered, 7 steps after the step that placed it, and is no longer pending
C5_Witness ==
    /\ Stepped("EnhancedBusinessEnv")
    /\ products[1].lead_time = 7
    /\ step_result.delivered[1] = 200
    /\ \E k \in DOMAIN orders_placed :
          /\ orders_placed[k].product = 1
          /\ orders_placed[k].quantity = 200
          /\ orders_placed[k].step + 7 = steps_taken
    /\ business_state.pending_orders[1] = <<>>

\* C6: inventory per product is never negative in the richer and in the
\* simple simulator; the units sold in a step are min(demand, inventory on
\* hand); and a step changes inventory only by adding what was delivered or
\* restocked and subtracting the units sold.
C6_InventoryNonNegative ==
    /\ [](env_kind = "EnhancedBusinessEnv"
            => \A i \in ProductIdx : business_state.inventory_levels[i] >= 0)
    /\ [](env_kind = "RestockingEnv" => business_state.current_inventory >= 0)
    /\ [](Stepped("EnhancedBusinessEnv")
            => \A i \in ProductIdx :
                  step_result.units_sold[i]
                     = Min(step_result.daily_demand[i], step_result.current_inventory[i]))
    /\ [](Stepped("RestockingEnv")
            => step_result.units_sold
                  = Min(step_result.daily_demand, step_result.current_inventory))
    /\ [][ steps_taken # None /\ steps_taken' = steps_taken + 1
             => CASE env_kind = "EnhancedBusinessEnv" ->
                       \A i \in ProductIdx :
                          business_state'.inventory_levels[i]
                             = business_state.inventory_levels[i]
                                 + step_result'.delivered[i] - step_result'.units_sold[i]
                  [] env_kind = "RestockingEnv" ->
                       /\ step_result'.current_inventory >= business_state.current_inventory
                       /\ business_state'.current_inventory
                             = step_result'.current_inventory - step_result'.units_sold
                  [] OTHER -> TRUE ]_vars

\* demand exceeded the stock of a product: what was on hand was sold and the
\* product is left with no inventory
C6_Witness ==
    /\ Stepped("EnhancedBusinessEnv")
    /\ \E i \in ProductIdx :
          /\ step_result.daily_demand[i] > step_result.units_sold[i]
          /\ step_result.units_sold[i] > 0
          /\ business_state.inventory_levels[i] = 0

\* the orders placed in the step that has just returned
PlacedNow == SelectSeq(orders_placed, LAMBDA o : o.step = steps_taken)

C8_TerminatedAtHorizon ==
    \A kind \in EnvKinds :
        Stepped(kind) =>
            /\ step_result.terminated
                  <=> steps_taken >= (IF kind = "RestockingEnv" THEN 30 ELSE 90)
            /\ kind # "RestockingEnv"
                  => (step_result.truncated <=> business_state.cash_flow < -5000000)

\* the 90th step of an episode of the richer simulator returned terminated,
\* with cash flow below the bankruptcy threshold, hence truncated as well
C8_Witness ==
    /\ Stepped("EnhancedBusinessEnv")
    /\ steps_taken = 90
    /\ step_result.terminated
    /\ step_result.truncated
    /\ business_state.cash_flow < -5000000

\* ------------------------------------------------------------------------
\* Claims about the retraining decision (SpecRetrain)
\* ------------------------------------------------------------------------
Completed == SelectSeq(outcome_data, LAMBDA o : o.status = "completed")
Rated == SelectSeq(Completed, LAMBDA o : o.user_satisfaction # None)

\* mean ROI-prediction accuracy of the completed outcomes below 0.6
LowAccuracy ==
    /\ Completed # <<>>
    /\ 10 * SumSeq([k \in DOMAIN Completed |->
                      _calculate_roi_accuracy(Completed[k].predicted_roi,
                                              Completed[k].actual_roi)])
          < 6 * RewardScale * Len(Completed)

\* satisfaction data exists and its mean is below 3.0
LowSatisfaction ==
    /\ Rated # <<>>
    /\ SumSeq([k \in DOMAIN Rated |-> Rated[k].user_satisfaction]) < 3 * Len(Rated)

\* cumulative actual profit below -1000 dollars
Losses == SumSeq([k \in DOMAIN Completed |-> Completed[k].actual_profit]) < -100000

\* time since the last retraining event, in ticks (None when there was none)
SinceLastTraining ==
    IF training_metrics = <<>> THEN None
    ELSE now - training_metrics[Len(training_metrics)].model_version

\* C9: should_retrain called with fewer than 10 completed outcomes returns
\* (False, 'insufficient_outcomes'), whether or not another condition is
\* violated.
C9_InsufficientOutcomes ==
    last_call = "should_retrain" /\ Len(Completed) < 10
        => last_return = [retrain |-> FALSE, reason |-> "insufficient_outcomes"]

\* should_retrain was called with 5 completed outcomes, accurate, profitable
\* and well rated, and no training on record
C9_Witness ==
    /\ last_call = "should_retrain"
    /\ Len(Completed) = 5
    /\ ~LowAccuracy /\ ~LowSatisfaction /\ ~Losses
    /\ Rated # <<>>
    /\ training_metrics = <<>>
    /\ last_return = [retrain |-> FALSE, reason |-> "insufficient_outcomes"]

Scheduled == SinceLastTraining # None /\ SinceLastTraining >= days(8)

\* the reason of the first condition that holds, in the order accuracy,
\* satisfaction, losses, schedule
FirstReason ==
    IF LowAccuracy THEN "poor_accuracy"
    ELSE IF LowSatisfaction THEN "poor_user_satisfaction"
    ELSE IF Losses THEN "significant_losses"
    ELSE IF Scheduled THEN "scheduled_retraining"
    ELSE "no_retraining_needed"

HoldingConditions ==
    {c \in {"accuracy", "satisfaction", "losses", "schedule"} :
        \/ c = "accuracy" /\ LowAccuracy
        \/ c = "satisfaction" /\ LowSatisfaction
        \/ c = "losses" /\ Losses
        \/ c = "schedule" /\ Scheduled}

\* C11 as stated: whenever several retrain conditions hold at once, the
\* reason should_retrain reports is that of the first one in the order poor
\* accuracy, poor user satisfaction, significant losses, scheduled retraining.
C11_FirstReasonReported ==
    last_call = "should_retrain" /\ Cardinality(HoldingConditions) >= 2
        => last_return.reason = FirstReason

\* C11 amended: with at least 10 completed outcomes, the reason should_retrain
\* reports is that of the first condition that holds in the order poor
\* accuracy, poor user satisfaction, significant losses, scheduled
\* retraining; with fewer, the reason is 'insufficient_outcomes' whichever
\* conditions hold.
C11_FirstReasonWhenEnoughOutcomes ==
    last_call = "should_retrain"
        => last_return.reason = IF Len(Completed) >= 10 THEN FirstReason
                                ELSE "insufficient_outcomes"

\* satisfaction is poor, losses are significant and the last training is 8
\* days old, accuracy being fine: poor user satisfaction is reported
C11_Witness ==
    /\ last_call = "should_retrain"
    /\ Len(Completed) >= 10
    /\ HoldingConditions = {"satisfaction", "losses", "schedule"}
    /\ last_return = [retrain |-> TRUE, reason |-> "poor_user_satisfaction"]

\* the most recent tick made this call
Called(name) == \E k \in DOMAIN tick_log : tick_log[k] = name

\* a tick whose retraining did not produce a model
FailedRetrainingTick ==
    /\ last_call' = "_run_periodic_tasks"
    /\ Called("run_periodic_retraining")'
    /\ training_metrics' = training_metrics

\* C12: when the retraining a tick triggers fails, run_periodic_retraining
\* returns retraining_performed = false with the reason that triggered it kept
\* in its result (trigger_details), records nothing, and no exception ends the
\* tick: the tick goes on to its last call.
C12_FailedRetrainingCaught ==
    [][FailedRetrainingTick =>
          /\ last_return'.retraining_performed = FALSE
          /\ last_return'.reason = "training_failed"
          /\ last_return'.trigger_details.reason = FirstReason'
          /\ FirstReason' # "no_retraining_needed"
          /\ system_status'.last_retraining = system_status.last_retraining
          /\ tick_log'[Len(tick_log')] = "_update_system_status"]_vars

\* a tick triggered a retraining for poor accuracy, and the training failed
C12_Witness ==
    /\ last_call = "_run_periodic_tasks"
    /\ Called("run_periodic_retraining")
    /\ training_metrics = <<>>
    /\ last_return.retraining_performed = FALSE
    /\ last_return.trigger_details.reason = "poor_accuracy"

\* the position of a call in the most recent tick, 0 if it was not made
PositionOf(name) ==
    IF Called(name) THEN CHOOSE k \in DOMAIN tick_log : tick_log[k] = name ELSE 0

\* C13: each tick of the periodic task checks for new approved tasks, captures
\* due outcomes, generates rewards, expires stale feedback requests and
\* evaluates the retrain condition, in this order; so a record the tick
\* completes has its EnhancedReward when the tick ends.
C13_RewardByEndOfTick ==
    [][last_call' = "_run_periodic_tasks" =>
          /\ \A i \in DOMAIN outcome_data :
                outcome_data[i].status = "tracking"
                /\ outcome_data'[i].status = "completed"
                => HasReward(enhanced_rewards', outcome_data'[i].task_id)
          /\ (Called("expire_old_requests")' =>
                /\ PositionOf("capture_business_outcomes")'
                      < PositionOf("generate_enhanced_rewards")'
                /\ PositionOf("generate_enhanced_rewards")'
                      < PositionOf("expire_old_requests")')]_vars

\* record i took the feedback and nothing else of it changed
FeedbackAttached(i) ==
    /\ outcome_data'[i].user_satisfaction \in SatisfactionChoices
    /\ outcome_data'[i].feedback_collected_at = now
    /\ outcome_data'[i] =
          [outcome_data[i] EXCEPT
              !.user_satisfaction = outcome_data'[i].user_satisfaction,
              !.feedback_collected_at = outcome_data'[i].feedback_collected_at]

\* C14: collect_user_feedback attaches the feedback to one existing record,
\* tracking or completed, and changes neither that record's status nor any
\* other record nor the rewards; it succeeds whenever a record of the task
\* exists, and for a task without a record it reports failure and changes
\* nothing.
C14_FeedbackFrame ==
    [][last_call' = "collect_user_feedback" =>
          /\ Len(outcome_data') = Len(outcome_data)
          /\ enhanced_rewards' = enhanced_rewards
          /\ last_return' \in {0, 1}
          /\ (last_return' = 0 => outcome_data' = outcome_data)
          /\ (last_return' = 1 =>
                \E i \in DOMAIN outcome_data :
                    /\ FeedbackAttached(i)
                    /\ \A j \in DOMAIN outcome_data \ {i} :
                          outcome_data'[j] = outcome_data[j])
          /\ (outcome_data = <<>> => last_return' = 0)
          /\ ((\A id \in TaskIds : FirstIndexOf(outcome_data, id) # 0)
                => last_return' = 1)]_vars

\* feedback was attached to a tracking record while another record, already
\* completed, stayed as it was
C14_Witness ==
    /\ last_call = "collect_user_feedback"
    /\ last_return = 1
    /\ \E i, j \in DOMAIN outcome_data :
          /\ outcome_data[i].status = "tracking"
          /\ outcome_data[i].user_satisfaction # None
          /\ outcome_data[i].feedback_collected_at = now
          /\ outcome_data[j].status = "completed"
          /\ outcome_data[j].user_satisfaction = None

Dials ==
    {"business_complexity", "market_volatility", "demand_uncertainty",
     "supplier_reliability", "cash_flow_pressure"}

StagesListed == calc_call \in {"create_curriculum_stages", "train_curriculum_stage"}

NonDecreasing(dial) ==
    \A k \in 1..(Len(calc_result.stages) - 1) :
        calc_result.stages[k][dial] <= calc_result.stages[k + 1][dial]

NonIncreasing(dial) ==
    \A k \in 1..(Len(calc_result.stages) - 1) :
        calc_result.stages[k][dial] >= calc_result.stages[k + 1][dial]

\* C15 as stated: in the curriculum produced by create_curriculum_stages each
\* of the five dials is non-decreasing from one stage to the next.
C15_DialsNonDecreasing ==
    StagesListed => \A dial \in Dials : NonDecreasing(dial)

\* C15 amended: business_complexity, market_volatility, demand_uncertainty
\* and cash_flow_pressure are non-decreasing from one stage to the next, and
\* supplier_reliability is non-increasing.
C15_DifficultyNonDecreasing ==
    StagesListed =>
        /\ \A dial \in Dials \ {"supplier_reliability"} : NonDecreasing(dial)
        /\ NonIncreasing("supplier_reliability")

\* the four stages were listed, from complexity 0.3 to 1.0 and from supplier
\* reliability 0.9 down to 0.5
C15_Witness ==
    /\ calc_call = "create_curriculum_stages"
    /\ Len(calc_result.stages) = 4
    /\ calc_result.stages[1].business_complexity = 3
    /\ calc_result.stages[4].business_complexity = 10
    /\ calc_result.stages[1].supplier_reliability = 9
    /\ calc_result.stages[4].supplier_reliability = 5

\* C16: for every total training budget, the timesteps of the curriculum
\* stages sum to the budget (and so do the timesteps trained once every stage
\* was trained).
C16_TimestepsSumToBudget ==
    StagesListed =>
        /\ SumSeq([k \in DOMAIN calc_result.stages |-> calc_result.stages[k].timesteps])
              = calc_input.total_timesteps
        /\ (calc_result.trained_stages = Len(calc_result.stages)
              => calc_result.trained_timesteps = calc_input.total_timesteps)

\* C17: a result with non-zero total restock cost has projected_roi equal to
\* (expected_revenue - total_restock_cost) / total_restock_cost x 100, and
\* expected_profit equal to that difference; with a cost of zero the
\* calculator returns a result with ROI 0 and does not raise.
C17_ProjectedRoiFormula ==
    calc_call = "calculate_roi" =>
        /\ ~calc_result.raised
        /\ calc_result.expected_profit
              = calc_result.expected_revenue - calc_result.total_restock_cost
        /\ IF calc_result.total_restock_cost # 0
           THEN calc_result.projected_roi
                  = TruncDiv((calc_result.expected_revenue
                                - calc_result.total_restock_cost) * 1000,
                             calc_result.total_restock_cost)
           ELSE calc_result.projected_roi = 0

\* 50 units at 8.00 of which 49 sell at 9.60: ROI 17.6 %
C17_Witness ==
    /\ calc_call = "calculate_roi"
    /\ calc_result.total_restock_cost = 40000
    /\ calc_result.expected_revenue = 47040
    /\ calc_result.projected_roi = 176

EqualButAccuracyAndSatisfaction(a, b) ==
    a = [b EXCEPT !.predicted_roi = a.predicted_roi,
                  !.actual_roi = a.actual_roi,
                  !.user_satisfaction = a.user_satisfaction]

\* C19: the total of an EnhancedReward is the sum of its four terms; and of
\* two completed records equal but for accuracy and satisfaction, the one with
\* predicted_roi = actual_roi = 25 and satisfaction 5 has an accuracy penalty
\* of 0 and a strictly greater total than the one with predicted_roi = 25,
\* actual_roi = 5 and satisfaction 1.
C19_TotalIsSumAndOrdered ==
    calc_call = "_calculate_enhanced_reward" =>
        /\ \A k \in DOMAIN calc_result :
              calc_result[k].total_reward
                = calc_result[k].base_reward + calc_result[k].actual_roi_reward
                  + calc_result[k].user_feedback_bonus + calc_result[k].accuracy_penalty
        /\ (/\ EqualButAccuracyAndSatisfaction(calc_input[1], calc_input[2])
            /\ calc_input[1].predicted_roi = 25 /\ calc_input[1].actual_roi = 25
            /\ calc_input[1].user_satisfaction = 5
            /\ calc_input[2].predicted_roi = 25 /\ calc_input[2].actual_roi = 5
            /\ calc_input[2].user_satisfaction = 1
            => /\ calc_result[1].accuracy_penalty = 0
               /\ calc_result[1].total_reward > calc_result[2].total_reward)

\* the accurate, well-rated record got the bonus 0.2 and no penalty, the
\* other the bonus -0.2 and the penalty -0.2, on the same profit
C19_Witness ==
    /\ calc_call = "_calculate_enhanced_reward"
    /\ EqualButAccuracyAndSatisfaction(calc_input[1], calc_input[2])
    /\ calc_input[1].predicted_roi = 25 /\ calc_input[1].actual_roi = 25
    /\ calc_input[1].user_satisfaction = 5
    /\ calc_input[2].predicted_roi = 25 /\ calc_input[2].actual_roi = 5
    /\ calc_input[2].user_satisfaction = 1
    /\ calc_result[1].user_feedback_bonus = (2 * RewardScale) \div 10
    /\ calc_result[1].accuracy_penalty = 0
    /\ calc_result[2].user_feedback_bonus = -((2 * RewardScale) \div 10)
    /\ calc_result[2].accuracy_penalty = -((2 * RewardScale) \div 10)
    /\ calc_result[1].base_reward = calc_result[2].base_reward

\* C20: a generator that collected no candidate action, every step having
\* been a no-op, returns an explicit 'monitor' recommendation; and no
\* generator ever returns an empty result.
C20_MonitorWhenNoCandidate ==
    calc_call = "return" =>
        /\ DOMAIN calc_result # {}
        /\ (calc_input.noop_steps = calc_input.steps =>
              IF calc_input.generator = "AICOOEnvironment"
              THEN Len(calc_result) = 1 /\ calc_result[1].action = "monitor"
              ELSE calc_result.action = "monitor" /\ calc_result.quantity = 0)

\* the enhanced generator ran its steps, all of them no-ops, and returned
\* the monitor recommendation
C20_Witness ==
    /\ calc_call = "return"
    /\ calc_input.generator = "EnhancedRLTrainingSystem"
    /\ calc_input.steps = MaxAgentSteps
    /\ calc_input.noop_steps = calc_input.steps
    /\ calc_result.action = "monitor"

\* ========================================================================
\* Properties of the tracking start (checked under SpecApproval)
\* ========================================================================
\* no product field or a null one and no product named in the reasoning
NoProduct(task) ==
    /\ task.product \in {Absent, Null}
    /\ ProductNamedIn(task.reasoning) = Absent
NoQuantity(task) == task.quantity \in {Missing, None}
\* a field that is there and holds the JSON null
MalformedField(task) ==
    \/ task.product = Null \/ task.quantity = None \/ task.expected_roi = None

\* the call appended a 'tracking' record for the payload and returned True,
\* with the fallback product and quantity where the payload has none
FallbackRecordStarted(task) ==
    /\ last_return' = 1
    /\ Len(outcome_data') = Len(outcome_data) + 1
    /\ LET outcome == outcome_data'[Len(outcome_data')]
       IN /\ outcome.status = "tracking"
          /\ outcome.task_id = task.id
          /\ NoProduct(task) => outcome.product_name = "Default Product"
          /\ NoQuantity(task) => outcome.restock_quantity = 0 /\ outcome.restock_cost = 0

StepReturns(kind) ==
    /\ env_kind = kind
    /\ steps_taken # None
    /\ steps_taken' = steps_taken + 1
\* the action the step was called with
ActionTaken == step_result'.action
Restocks(action) == \E i \in ProductIdx : action.product_actions[i] > 0
AuxiliaryChoice(action) == \E k \in 1..3 : action.business_actions[k] > 0
RestockedProducts(action) == {i \in ProductIdx : action.product_actions[i] > 0}

\* C22 as stated: a step whose action has a restock tier > 0 or an auxiliary
\* business choice > 0 appends to the episode log, and a step whose action is
\* a no-op appends nothing
C22_RecordedUnlessNoOp ==
    [][/\ StepReturns("EnhancedBusinessEnv") =>
             IF Restocks(ActionTaken) \/ AuxiliaryChoice(ActionTaken)
             THEN Len(episode_actions') > Len(episode_actions)
                  /\ IsPrefix(episode_actions, episode_actions')
             ELSE episode_actions' = episode_actions
       /\ StepReturns("RestockingEnv") =>
             IF ActionTaken > 0
             THEN Len(episode_actions') = Len(episode_actions) + 1
                  /\ IsPrefix(episode_actions, episode_actions')
             ELSE episode_actions' = episode_actions]_vars

\* C22 amended: a step whose action has a restock tier > 0 appends to the
\* episode log, one record for each product restocked in the richer
\* simulator; a step whose action has no restock tier > 0 appends nothing,
\* whatever its auxiliary business choices are
C22_RecordedWhenRestocking ==
    [][/\ StepReturns("EnhancedBusinessEnv") =>
             IF Restocks(ActionTaken)
             THEN /\ Len(episode_actions') =
                        Len(episode_actions) + Cardinality(RestockedProducts(ActionTaken))
                  /\ IsPrefix(episode_actions, episode_actions')
             ELSE episode_actions' = episode_actions
       /\ StepReturns("RestockingEnv") =>
             IF ActionTaken > 0
             THEN Len(episode_actions') = Len(episode_actions) + 1
                  /\ IsPrefix(episode_actions, episode_actions')
             ELSE episode_actions' = episode_actions]_vars

\* a marketing-only step has returned after a restocking one, and the log
\* holds the restock alone
C22_Witness ==
    /\ Stepped("EnhancedBusinessEnv")
    /\ steps_taken = 2
    /\ ~Restocks(step_result.action)
    /\ AuxiliaryChoice(step_result.action)
    /\ Len(episode_actions) = 1
    /\ episode_actions[1].action = "restock_small"
    /\ episode_actions[1].day = 1

\* ========================================================================
\* Properties of the stockout counter (checked under SpecEnv)
\* ========================================================================
\* products whose demand in the step exceeded the inventory they had
ShortProducts ==
    {i \in ProductIdx : step_result'.daily_demand[i] > step_result'.current_inventory[i]}
\* products that had no inventory at all while there was demand for them
EmptyProducts ==
    {i \in ProductIdx : /\ step_result'.daily_demand[i] > 0
                        /\ step_result'.current_inventory[i] = 0}

\* satisfaction multiplied by 0.98 n times
RECURSIVE Decremented(_, _)
Decremented(satisfaction, n) ==
    IF n = 0 THEN satisfaction ELSE Decremented((satisfaction * 98) \div 100, n - 1)

\* the step counted exactly the products in hit: each adds one to its
\* stockout counter and multiplies satisfaction by 0.98, and with none
\* neither a count nor a decrease of satisfaction occurs
StockoutsCounted(hit) ==
    /\ step_result'.stockouts = Cardinality(hit)
    /\ \A i \in ProductIdx :
          business_state'.stockout_days[i] =
             business_state.stockout_days[i] + (IF i \in hit THEN 1 ELSE 0)
    /\ IF hit = {}
       THEN business_state'.customer_satisfaction >= business_state.customer_satisfaction
       ELSE business_state'.customer_satisfaction =
               Decremented(business_state.customer_satisfaction, Cardinality(hit))

\* C23 as stated: in every step each product whose realized demand exceeds
\* its available inventory adds one to the stockout counter and multiplies
\* customer satisfaction by the decrement factor, and a step with no such
\* product neither counts nor decreases satisfaction
C23_CountedWhenDemandExceedsInventory ==
    [][StepReturns("EnhancedBusinessEnv") => StockoutsCounted(ShortProducts)]_vars

\* C23 amended: in every step each product whose available inventory is zero
\* while its realized demand is above zero adds one to the stockout counter
\* and multiplies customer satisfaction by the decrement factor; a step with
\* no such product neither counts nor decreases satisfaction, even if the
\* demand for a product exceeded the inventory it had
C23_CountedWhenOutOfStock ==
    [][StepReturns("EnhancedBusinessEnv") => StockoutsCounted(EmptyProducts)]_vars

\* both products were out of stock in the step that has returned, after a
\* step in which demand exceeded what was left and nothing was counted
C23_Witness ==
    /\ Stepped("EnhancedBusinessEnv")
    /\ steps_taken = 3
    /\ step_result.stockouts = NumProducts
    /\ \A i \in ProductIdx : /\ step_result.current_inventory[i] = 0
                             /\ step_result.daily_demand[i] > 0
                             /\ business_state.stockout_days[i] = 1
    /\ business_state.customer_satisfaction < 800000

\* ========================================================================
\* Properties of the ranking (checked under SpecRecommend)
\* ========================================================================
\* the generators that rank the actions of the richer simulator's log
RankingGenerators == {"EnhancedRLTrainingSystem", "EnhancedRLAgent"}

\* the candidates: the entries of the simulator's action log with the
\* confidence score the ranking gives them
Candidates ==
    { [action |-> c.action, quantity |-> c.quantity, expected_roi |-> c.expected_roi,
       predicted_profit_usd |-> c.predicted_profit_usd,
       confidence_score |->
           _calculate_action_confidence(c, average_roi_accuracy(outcome_data))] :
        c \in {calc_input.episode_actions[k] : k \in DOMAIN calc_input.episode_actions} }

IsRecommended(rec, c) ==
    /\ rec.action = c.action
    /\ rec.quantity = c.quantity
    /\ rec.expected_roi = c.expected_roi

\* C24: when the simulator's log holds at least one candidate action, the
\* recommendation returned is the candidate with the highest weighted score
\* (0.4 ROI + 0.3 confidence + 0.3 normalized profit), and its alternatives
\* are the next candidates in descending order of score, two to three of them
\* (fewer only when there are no more candidates)
C24_PrimaryHasHighestScore ==
    (/\ calc_call = "return"
     /\ calc_input.generator \in RankingGenerators
     /\ calc_input.episode_actions # <<>>)
    =>
    /\ \E c \in Candidates :
          /\ IsRecommended(calc_result, c)
          /\ \A d \in Candidates : score_recommendation(c) >= score_recommendation(d)
    /\ LET alternatives == calc_result.alternative_actions
       IN /\ Len(alternatives) <= 3
          /\ Len(alternatives) >= Min(2, Len(calc_input.all_recommendations) - 1)
          /\ \A k \in DOMAIN alternatives :
                /\ \E c \in Candidates : IsRecommended(alternatives[k], c)
                /\ k > 1 => score_recommendation(alternatives[k - 1])
                               >= score_recommendation(alternatives[k])

\* ========================================================================
\* Properties of the retraining simulator's reward (checked under SpecInject)
\* ========================================================================
\* a step of a simulator created for retraining has just returned
RetrainingStep == calc_call' = "step" /\ calc_input.use_real_rewards

\* C25: during retraining every simulator step has its per-episode action
\* identifier whenever the store holds rewards to be matched; a step whose
\* identifier has an EnhancedReward in the store returns 0.7 x the simulated
\* reward + 0.3 x the real reward, and a step without one returns the
\* simulated reward unchanged
C25_BlendedWhenRewardStored ==
    [][RetrainingStep =>
         /\ enhanced_rewards # <<>> => calc_input.has_current_action_id
         /\ IF /\ calc_input.has_current_action_id
               /\ HasReward(enhanced_rewards, calc_input._current_action_id)
            THEN calc_result'.reward =
                    Blended(calc_result'.base_reward,
                            calc_input.reward_lookup[calc_input._current_action_id])
            ELSE calc_result'.reward = calc_result'.base_reward]_vars

\* ========================================================================
\* Properties of the check for new approved tasks (checked under SpecFile)
\* ========================================================================
CheckReturns ==
    /\ last_call' = "check_for_new_approved_tasks"
    /\ IsPrefix(outcome_data, outcome_data')
RecordsOf(data, task_id) == {i \in DOMAIN data : data[i].task_id = task_id}
IdOf(entry) == IF "id" \in DOMAIN entry THEN entry.id ELSE "unknown"

\* C26: a check starts tracking only entries of the file whose status is
\* 'approved' and that are not executed, starts none for a task id that has
\* a record already, and leaves no task id with a second record: checks
\* repeated over an unchanged file create one record per task id at most
C26_NoSecondRecord ==
    [][CheckReturns =>
         /\ \A i \in (DOMAIN outcome_data') \ (DOMAIN outcome_data) :
               /\ \E k \in DOMAIN approved_tasks :
                     /\ IdOf(approved_tasks[k]) = outcome_data'[i].task_id
                     /\ approved_tasks[k].status = "approved"
                     /\ ~approved_tasks[k].executed
               /\ RecordsOf(outcome_data, outcome_data'[i].task_id) = {}
         /\ \A k \in DOMAIN approved_tasks :
               Cardinality(RecordsOf(outcome_data', IdOf(approved_tasks[k]))) <= 1]_vars

\* ========================================================================
\* Properties of the background thread (checked under SpecLoop)
\* ========================================================================
AliveLoops == {k \in DOMAIN background.loops : is_alive(k)}
Ticking == \E k \in DOMAIN background.loops : background.loops[k] = "ticking"

\* C28: however many times start_background_processing is called, at most
\* one background loop is alive at any time, so no two ticks (and no two
\* retrainings they trigger) are ever in progress together
C28_OneBackgroundLoop ==
    /\ Cardinality(AliveLoops) <= 1
    /\ Cardinality({k \in DOMAIN background.loops : background.loops[k] = "ticking"}) <= 1

\* start_background_processing was called again while the thread was inside
\* a tick, and there still is that one thread
C28_Witness ==
    /\ last_call = "start_background_processing"
    /\ background.start_calls = 2
    /\ background.loops = <<"ticking">>

\* C29: once stop_background_processing was called, a later call of
\* start_background_processing leads to the background loop running a tick
\* again
C29_StartResumesAfterStop ==
    (last_call = "start_background_processing" /\ background.stop_background) ~> Ticking

\* ========================================================================
\* Properties of run_manual_sync beside a tick (checked under SpecSync)
\* ========================================================================
BothReturned == \A w \in SyncThreads : workers[w].pc = "returned"

CapturesMade == workers["tick"].captured_count + workers["sync"].captured_count

CompletedRecords == {i \in DOMAIN outcome_data : outcome_data[i].status = "completed"}

RewardsFor(task_id) ==
    {k \in DOMAIN enhanced_rewards : enhanced_rewards[k].task_id = task_id}

\* C27: when run_manual_sync runs beside a tick, however the two are
\* interleaved each due record is completed once (as many captures are made
\* as records are completed, and when both have returned every record that
\* was due is completed) and the reward store holds at most one
\* EnhancedReward per task id
C27_EachDueRecordCompletedOnce ==
    /\ CapturesMade = Cardinality(CompletedRecords)
    /\ BothReturned =>
          \A i \in DOMAIN outcome_data :
              IsDueAnyStatus(outcome_data[i], now) => outcome_data[i].status = "completed"
    /\ \A i \in DOMAIN outcome_data :
          Cardinality(RewardsFor(outcome_data[i].task_id)) <= 1

\* ========================================================================
\* Properties of the feedback requests (checked under SpecFeedback)
\* ========================================================================
ResponsesTo(request_id) ==
    {j \in DOMAIN feedback_responses : feedback_responses[j].request_id = request_id}

\* the status of request k changes only from 'pending', to 'completed' or
\* to 'expired'
StatusMovesForward(k) ==
    feedback_requests'[k].status # feedback_requests[k].status =>
        /\ feedback_requests[k].status = "pending"
        /\ feedback_requests'[k].status \in {"completed", "expired"}

\* a response is appended only for a pending request that has not expired,
\* by the request's own user, and completes that request
ResponseRecordedProperly ==
    feedback_responses' # feedback_responses =>
        /\ Len(feedback_responses') = Len(feedback_responses) + 1
        /\ LET response == feedback_responses'[Len(feedback_responses')]
               k == FindRequest(feedback_requests, response.request_id)
           IN /\ k # 0
              /\ feedback_requests[k].status = "pending"
              /\ ~Expires(feedback_requests[k], now)
              /\ response.user_id = feedback_requests[k].user_id
              /\ feedback_requests'[k].status = "completed"

\* C30: a FeedbackRequest only moves from 'pending' to 'completed' or from
\* 'pending' to 'expired' and neither is left again;
\* process_feedback_response records a response only for a pending,
\* unexpired request and only from the request's own user, so no request
\* has two responses, and expire_old_requests leaves a completed request
\* as it is
C30_RequestLifecycle ==
    /\ [][/\ \A k \in DOMAIN feedback_requests :
                /\ k \in DOMAIN feedback_requests'
                /\ StatusMovesForward(k)
                /\ (last_call' = "expire_old_requests"
                    /\ feedback_requests[k].status = "completed"
                    => feedback_requests'[k] = feedback_requests[k])
          /\ ResponseRecordedProperly]_vars
    /\ [](\A k \in DOMAIN feedback_requests :
             Cardinality(ResponsesTo(RequestId(feedback_requests[k]))) <= 1)

\* a second response to a completed request was refused, and
\* expire_old_requests has run past the expiry of a completed request that
\* is still completed, beside one it expired
C30_Witness ==
    /\ last_call = "expire_old_requests"
    /\ \E k \in DOMAIN feedback_requests :
          /\ feedback_requests[k].status = "completed"
          /\ Expires(feedback_requests[k], now)
          /\ Cardinality(ResponsesTo(RequestId(feedback_requests[k]))) = 1
    /\ \E k \in DOMAIN feedback_requests : feedback_requests[k].status = "expired"

====
